---------------------------- MODULE Spec2Model ----------------------------
(***************************************************************************)
(* Chatteroo core: station identifiers and their 6-bit codec               *)
(* (protocol/station.rs), network ids (protocol/network.rs), the AX.25     *)
(* transmission codec (channel/ax25.rs), week epochs (protocol/epoch.rs).  *)
(*                                                                         *)
(* Representation.  A Rust String / &str is a sequence of ASCII codes, a   *)
(* Vec<u8> / &[u8] a sequence of naturals in 0..255.  A Result is          *)
(* [ok |-> TRUE, val |-> v] or [ok |-> FALSE, err |-> e]; a panic          *)
(* (unwrap on Err, unreachable!) is the Result Panicked.                   *)
(***************************************************************************)
EXTENDS Integers, Sequences, FiniteSets, TLC

VARIABLES
    call,       \* the last station operation: its arguments and its result
    made,       \* the stations a caller has encoded into one buffer
    prefix,     \* the net_prefix that buffer was encoded with
    wire,       \* the buffer
    rest,       \* what try_parse has not consumed yet
    parsed,     \* the results of the try_parse calls on the buffer
    shortZero,  \* whether the ax25 crate prints an Address with SSID 0 without "-0"
    tx,         \* the Transmission given to encode_transmission
    air,        \* the Ax25Frame on the air
    flipped,    \* whether a bit of its info field was flipped on the way
    rx,         \* decode_transmission's net_prefix argument and result
    overflowChecks, \* whether the build panics on integer overflow (debug) or wraps
    clock,      \* the wall clock, in seconds since 2020-01-01 0:00 UTC
    ticks,      \* how many times the clock has been advanced
    sent,       \* the mod-8 epoch a sender has abbreviated, with what it was made of
    restored,   \* the receiver's Epoch::from_mod8 of it, with the receiver's clock
    sweep       \* Epoch::from_mod8 of each of 0..7 at one clock reading

stationVars == <<call, made, prefix, wire, rest, parsed>>
channelVars == <<shortZero, tx, air, flipped, rx>>
epochVars == <<overflowChecks, clock, ticks, sent, restored, sweep>>
vars == <<call, made, prefix, wire, rest, parsed, shortZero, tx, air, flipped, rx,
          overflowChecks, clock, ticks, sent, restored, sweep>>

-----------------------------------------------------------------------------
(* Results *)

Ok(v) == [ok |-> TRUE, val |-> v, err |-> "None"]
Err(e) == [ok |-> FALSE, val |-> <<>>, err |-> e]
Panicked == [ok |-> FALSE, val |-> <<>>, err |-> "Panic"]

\* The `?` operator (ax25.rs:144-149 and every later use): an Err returns at
\* once, an Ok value goes on to F.
Try(r, F(_)) == IF r.ok THEN F(r.val) ELSE r

\* Result::map_err(|_| e)
MapErr(r, e) == IF r.ok THEN r ELSE Err(e)

-----------------------------------------------------------------------------
(* u8 / u16 bit arithmetic *)

RECURSIVE BitAnd(_, _)
BitAnd(a, b) ==
    IF a = 0 \/ b = 0 THEN 0
    ELSE (IF a % 2 = 1 /\ b % 2 = 1 THEN 1 ELSE 0) + 2 * BitAnd(a \div 2, b \div 2)

RECURSIVE BitOr(_, _)
BitOr(a, b) ==
    IF a = 0 THEN b
    ELSE IF b = 0 THEN a
    ELSE (IF a % 2 = 1 \/ b % 2 = 1 THEN 1 ELSE 0) + 2 * BitOr(a \div 2, b \div 2)

RECURSIVE BitXor(_, _)
BitXor(a, b) ==
    IF a = 0 THEN b
    ELSE IF b = 0 THEN a
    ELSE (IF (a % 2) # (b % 2) THEN 1 ELSE 0) + 2 * BitXor(a \div 2, b \div 2)

Shr(x, n) == x \div (2 ^ n)
Shl8(x, n) == (x * (2 ^ n)) % 256
Shl16(x, n) == (x * (2 ^ n)) % 65536

\* A u32 is the pair <<high 16 bits, low 16 bits>>: TLC's integers are 32-bit
\* signed and cannot hold 0xFFFFFFFF.
U16Bytes(x) == <<x \div 256, x % 256>>
U16FromBytes(b0, b1) == b0 * 256 + b1
U32Bytes(x) == <<x[1] \div 256, x[1] % 256, x[2] \div 256, x[2] % 256>>
U32FromBytes(b0, b1, b2, b3) == <<b0 * 256 + b1, b2 * 256 + b3>>

-----------------------------------------------------------------------------
(* crc32fast::Hasher: CRC-32 (IEEE 802.3), reflected polynomial 0xEDB88320,  *)
(* initial value and final xor 0xFFFFFFFF, computed with a byte table.      *)

\* One shift of the reflected CRC register.
CrcShift(x) ==
    LET hi == x[1] \div 2
        lo == (x[2] \div 2) + (x[1] % 2) * 32768
    IN IF x[2] % 2 = 1 THEN <<BitXor(hi, 60856), BitXor(lo, 33568)>> ELSE <<hi, lo>>

RECURSIVE CrcBits(_, _)
CrcBits(x, k) ==
    IF k = 0 THEN x
    ELSE LET y == CrcShift(x) IN IF y[1] >= 0 THEN CrcBits(y, k - 1) ELSE y

\* XOR of two bytes, a nibble at a time, from a 16 by 16 table.
XorTable == [a \in 0..15 |-> [b \in 0..15 |-> BitXor(a, b)]]
Xor8(a, b) == XorTable[a \div 16][b \div 16] * 16 + XorTable[a % 16][b % 16]

CrcTable == [n \in 0..255 |-> CrcBits(<<0, n>>, 8)]

\* crc = table[(crc ^ b) & 0xFF] ^ (crc >> 8)
CrcByte(x, b) ==
    LET t == CrcTable[Xor8(x[2] % 256, b)]
    IN << (t[1] \div 256) * 256 + Xor8(t[1] % 256, x[1] \div 256),
          Xor8(t[2] \div 256, x[1] % 256) * 256 + Xor8(t[2] % 256, x[2] \div 256) >>

RECURSIVE CrcUpdate(_, _, _)
CrcUpdate(x, bytes, i) ==
    IF i > Len(bytes) THEN x
    ELSE LET y == CrcByte(x, bytes[i])
         IN IF y[1] >= 0 THEN CrcUpdate(y, bytes, i + 1) ELSE y

\* Hasher::new(), update(bytes), finalize()
Crc32(bytes) ==
    LET x == CrcUpdate(<<65535, 65535>>, bytes, 1)
    IN <<65535 - x[1], 65535 - x[2]>>

-----------------------------------------------------------------------------
(* Strings *)

is_ascii_digit(c) == c \in 48..57
is_ascii_uppercase(c) == c \in 65..90

starts_with(s, p) == Len(p) <= Len(s) /\ SubSeq(s, 1, Len(p)) = p

-----------------------------------------------------------------------------
(* protocol/station.rs *)

\* Mutant: the SSID bound is off by one.
StationNewSsidOffByOne(callsign, ssid) ==
    IF ~ \A i \in 1..Len(callsign) :
            is_ascii_digit(callsign[i]) \/ is_ascii_uppercase(callsign[i])
    THEN Err("InvalidCallsign")
    ELSE IF ssid > 10 THEN Err("InvalidSsid")
    ELSE Ok([callsign |-> callsign, ssid |-> ssid])

StationNew(callsign, ssid) ==
    IF ~ \A i \in 1..Len(callsign) :
            is_ascii_digit(callsign[i]) \/ is_ascii_uppercase(callsign[i])
    THEN Err("InvalidCallsign")
    ELSE IF ssid > 9 THEN Err("InvalidSsid")
    ELSE Ok([callsign |-> callsign, ssid |-> ssid])

\* Display: "{callsign}-{ssid}", ssid is a single digit for every Station::new value.
StationToString(s) == s.callsign \o <<45, 48 + s.ssid>>

\* The 6-bit value of a callsign character; the third arm is unreachable!().
CharValue(c) ==
    IF c \in 65..90 THEN c - 65
    ELSE IF c \in 48..57 THEN c - 48 + 26
    ELSE 255

\* Mutant: the prefix is stripped but the complete-callsign SSID range is emitted.
TerminalValueNoElisionMark(ssid, using_net_prefix) == ssid + 36

TerminalValue(ssid, using_net_prefix) ==
    IF using_net_prefix THEN ssid + 46 ELSE ssid + 36

UsingNetPrefix(callsign, net_prefix) ==
    net_prefix # <<>> /\ starts_with(callsign, net_prefix)

StationValues(self, net_prefix) ==
    LET using_net_prefix == UsingNetPrefix(self.callsign, net_prefix)
        callsign == IF using_net_prefix
                    THEN SubSeq(self.callsign, Len(net_prefix) + 1, Len(self.callsign))
                    ELSE self.callsign
    IN [i \in 1..Len(callsign) |-> CharValue(callsign[i])]
         \o <<TerminalValue(self.ssid, using_net_prefix)>>

\* Mutant: the third value of each group is shifted as the second one is.
RECURSIVE PackValuesShift4(_, _, _)
PackValuesShift4(values, i, out) ==
    IF i >= Len(values) THEN out
    ELSE LET value == values[i + 1]
             n == Len(out)
             OrLast(x) == [out EXCEPT ![n] = BitOr(out[n], x)]
         IN PackValuesShift4(values, i + 1,
                CASE i % 4 = 0 -> Append(out, Shl8(value, 2))
                  [] i % 4 = 1 -> Append(OrLast(Shr(value, 4)), Shl8(value, 4))
                  [] i % 4 = 2 -> Append(OrLast(Shr(value, 2)), Shl8(value, 4))
                  [] OTHER -> OrLast(value))

\* The packing loop; i is the 0-based index of the next value.
RECURSIVE PackValues(_, _, _)
PackValues(values, i, out) ==
    IF i >= Len(values) THEN out
    ELSE LET value == values[i + 1]
             n == Len(out)
             OrLast(x) == [out EXCEPT ![n] = BitOr(out[n], x)]
         IN PackValues(values, i + 1,
                CASE i % 4 = 0 -> Append(out, Shl8(value, 2))
                  [] i % 4 = 1 -> Append(OrLast(Shr(value, 4)), Shl8(value, 4))
                  [] i % 4 = 2 -> Append(OrLast(Shr(value, 2)), Shl8(value, 6))
                  [] OTHER -> OrLast(value))

StationEncoded(self, net_prefix) == PackValues(StationValues(self, net_prefix), 0, <<>>)

\* Mutant: the padding byte is never stepped over.
AfterTerminalNoSkip(i, encoded) == encoded

\* `if i != 3 && !encoded.is_empty() { encoded = &encoded[1..]; }`
AfterTerminal(i, encoded) ==
    IF i # 3 /\ encoded # <<>> THEN Tail(encoded) ELSE encoded

\* One pass of the match on i % 4: the value read and the advanced slice.
ReadValue(encoded, i) ==
    CASE i % 4 = 0 ->
           [ok |-> TRUE, value |-> Shr(encoded[1], 2), encoded |-> encoded]
      [] i % 4 = 1 ->
           IF Len(encoded) < 2 THEN [ok |-> FALSE, value |-> 0, encoded |-> encoded]
           ELSE [ok |-> TRUE,
                 value |-> BitOr(Shl8(BitAnd(encoded[1], 3), 4), Shr(encoded[2], 4)),
                 encoded |-> Tail(encoded)]
      [] i % 4 = 2 ->
           IF Len(encoded) < 2 THEN [ok |-> FALSE, value |-> 0, encoded |-> encoded]
           ELSE [ok |-> TRUE,
                 value |-> BitOr(Shl8(BitAnd(encoded[1], 15), 2), Shr(encoded[2], 6)),
                 encoded |-> Tail(encoded)]
      [] OTHER ->
           [ok |-> TRUE, value |-> BitAnd(encoded[1], 63), encoded |-> Tail(encoded)]

\* The while loop of try_parse.
RECURSIVE ParseValues(_, _)
ParseValues(encoded, values) ==
    IF encoded = <<>> THEN [ok |-> TRUE, values |-> values, encoded |-> encoded]
    ELSE LET i == Len(values)
             r == ReadValue(encoded, i)
         IN IF ~r.ok THEN [ok |-> FALSE, values |-> values, encoded |-> encoded]
            ELSE IF r.value <= 35 THEN ParseValues(r.encoded, Append(values, r.value))
            ELSE IF r.value <= 55
                 THEN [ok |-> TRUE, values |-> Append(values, r.value),
                       encoded |-> AfterTerminal(i, r.encoded)]
            ELSE [ok |-> FALSE, values |-> values, encoded |-> encoded]

ValueChar(v) == IF v <= 25 THEN 65 + v ELSE 48 + v - 26

\* Mutant: any last value up to 45 is taken for a terminal.
StationFromValuesAnyLast(values, encoded, net_prefix) ==
    IF values = <<>> THEN Err("InvalidStationIdentifier")
    ELSE LET ssid_value == values[Len(values)]
             callsign == [i \in 1..(Len(values) - 1) |-> ValueChar(values[i])]
         IN IF ssid_value <= 45
            THEN Ok([station |-> [callsign |-> callsign, ssid |-> ssid_value % 10],
                     rest |-> encoded])
            ELSE IF ssid_value \in 46..55
            THEN Ok([station |-> [callsign |-> net_prefix \o callsign,
                                  ssid |-> ssid_value - 46],
                     rest |-> encoded])
            ELSE Err("InvalidStationIdentifier")

\* `if let Some((ssid_value, callsign_values)) = values.split_last() {..} else {..}`
StationFromValues(values, encoded, net_prefix) ==
    IF values = <<>> THEN Err("InvalidStationIdentifier")
    ELSE LET ssid_value == values[Len(values)]
             callsign == [i \in 1..(Len(values) - 1) |-> ValueChar(values[i])]
         IN IF ssid_value \in 36..45
            THEN Ok([station |-> [callsign |-> callsign, ssid |-> ssid_value - 36],
                     rest |-> encoded])
            ELSE IF ssid_value \in 46..55
            THEN Ok([station |-> [callsign |-> net_prefix \o callsign,
                                  ssid |-> ssid_value - 46],
                     rest |-> encoded])
            ELSE Err("InvalidStationIdentifier")

\* Ok carries the pair (Station, remainder).
StationTryParse(encoded, net_prefix) ==
    LET r == ParseValues(encoded, <<>>)
    IN IF ~r.ok THEN Err("InvalidStationIdentifier")
       ELSE StationFromValues(r.values, r.encoded, net_prefix)

\* The format of the doc comment of Station: a stream of 6-bit symbols, most
\* significant bit first.  SymbolCount is the number of symbols that lie wholly
\* inside the bytes, SymbolAt the k-th of them (0-based).
SymbolCount(bytes) == (8 * Len(bytes)) \div 6

SymbolAt(bytes, k) ==
    LET j == (6 * k) \div 8
        o == (6 * k) % 8
        w == bytes[j + 1] * 256 + (IF j + 2 <= Len(bytes) THEN bytes[j + 2] ELSE 0)
    IN (w \div (2 ^ (10 - o))) % 64

\* The index of the first symbol that is not a callsign symbol (0..35), or
\* SymbolCount(bytes) when there is none.
FirstNonCallsignSymbol(bytes) ==
    LET ends == {k \in 0..(SymbolCount(bytes) - 1) : SymbolAt(bytes, k) > 35}
    IN IF ends = {} THEN SymbolCount(bytes)
       ELSE CHOOSE k \in ends : \A m \in ends : k <= m

-----------------------------------------------------------------------------
(* protocol/network.rs *)

\* Mutant: the length bound is off by one.
NetworkNewLen4(network) ==
    IF /\ \A i \in 1..Len(network) :
              is_ascii_uppercase(network[i]) \/ is_ascii_digit(network[i])
       /\ Len(network) <= 4
    THEN Ok(network)
    ELSE Err("InvalidNetwork")

NetworkNew(network) ==
    IF /\ \A i \in 1..Len(network) :
              is_ascii_uppercase(network[i]) \/ is_ascii_digit(network[i])
       /\ Len(network) <= 3
    THEN Ok(network)
    ELSE Err("InvalidNetwork")

\* Network::id() of an Ok(Network)
NetworkId(n) == n

-----------------------------------------------------------------------------
(* Inputs of the station operations *)

\* Callsigns of the repository's tests (station.rs:270) and neighbours.  Without
\* a prefix their terminal symbols have the indices 1, 3, 5, 6 and 7; with the
\* prefix VK7 the indices 0, 2, 3 and 4 (and A is not elided).
Call_A == <<65>>
Call_VK7 == <<86, 75, 55>>
Call_VK7XT == <<86, 75, 55, 88, 84>>
Call_VK7NTK == <<86, 75, 55, 78, 84, 75>>
Call_VK7FDAE == <<86, 75, 55, 70, 68, 65, 69>>
Call_W1AW == <<87, 49, 65, 87>>
Call_VK7NTK89 == <<86, 75, 55, 78, 84, 75, 56, 57>>

ValidCallsigns == {Call_A, Call_VK7, Call_VK7XT, Call_VK7NTK, Call_VK7FDAE}

\* The empty string, lowercase, a dash and a blank.
Call_Empty == <<>>
Call_vk7 == <<118, 107, 55>>
Call_VKdash == <<86, 75, 45, 55>>
Call_VKblank == <<86, 75, 32>>

CallsignInputs ==
    ValidCallsigns \cup {Call_W1AW, Call_VK7NTK89, Call_Empty, Call_vk7, Call_VKdash, Call_VKblank}

SsidInputs == {0, 5, 9, 10, 255}

Prefix_None == <<>>
Prefix_VK7 == <<86, 75, 55>>
Prefix_VK3 == <<86, 75, 51>>
Prefix_lower == <<118, 107>>

\* Empty, matching (and equal to the callsign VK7), non-matching.
PrefixInputs == {Prefix_None, Prefix_VK7, Prefix_VK3}

\* Network ids: the empty one, 1 to 3 letters and digits, 4 and 5 characters,
\* lowercase, a dash and a blank.
NetworkInputs ==
    {<<>>, <<86>>, <<86, 75>>, Prefix_VK7, <<55, 56, 57>>, <<86, 75, 55, 88>>, Call_VK7XT,
     Prefix_lower, <<86, 107>>, <<86, 45, 55>>, <<32>>}

\* How many stations a caller concatenates into one buffer.
MaxConcat == 3

\* Length of the arbitrary byte strings handed to try_parse.
MaxRawLen == 2

\* Bytes whose leading 6-bit symbol is a letter (0), a digit (35), a terminal
\* 36, a terminal 46, the last terminal 55, and the invalid 56 and 63; after the
\* byte 3 the second symbol is 56 or more.
RawBytes == {0, 3, 143, 144, 184, 223, 224, 255}

RECURSIVE SeqsUpTo(_, _)
SeqsUpTo(S, n) ==
    IF n = 0 THEN {<<>>}
    ELSE LET shorter == SeqsUpTo(S, n - 1)
         IN shorter \cup {Append(q, x) : q \in {r \in shorter : Len(r) = n - 1}, x \in S}

RawInputs == SeqsUpTo(RawBytes, MaxRawLen)

-----------------------------------------------------------------------------
(* Station operations as steps of a caller *)

NoCall == [op |-> "none"]

NoTransmission == [version |-> "None"]
NoFrame == [content |-> "None"]
NoRx == [net_prefix |-> <<>>, res |-> [ok |-> FALSE, val |-> <<>>, err |-> "NotCalled"]]

ChannelIdle ==
    /\ shortZero = FALSE
    /\ tx = NoTransmission
    /\ air = NoFrame
    /\ flipped = FALSE
    /\ rx = NoRx

NoSent == [sent |-> FALSE]
NoRestored == [called |-> FALSE]
NoSweep == [swept |-> FALSE]

EpochIdle ==
    /\ overflowChecks = FALSE
    /\ clock = 0
    /\ ticks = 0
    /\ sent = NoSent
    /\ restored = NoRestored
    /\ sweep = NoSweep

InitStation ==
    /\ ChannelIdle
    /\ EpochIdle
    /\ call = NoCall
    /\ made = <<>>
    /\ prefix = <<>>
    /\ wire = <<>>
    /\ rest = <<>>
    /\ parsed = <<>>

\* The calls that build no buffer are pure functions of their arguments: each is
\* made once, by a caller that has made no call yet.

\* Station::new(callsign, ssid)
NewStation ==
    \E callsign \in CallsignInputs, ssid \in SsidInputs :
        /\ call = NoCall
        /\ call' = [op |-> "new", callsign |-> callsign, ssid |-> ssid,
                    res |-> StationNew(callsign, ssid)]
        /\ UNCHANGED <<made, prefix, wire, rest, parsed, channelVars, epochVars>>

\* Station::new(callsign, ssid).unwrap().encoded(net_prefix), appended to the
\* buffer (station.rs:302-311); one net_prefix per buffer.
AppendEncoded ==
    \E callsign \in ValidCallsigns, ssid \in {0, 9}, net_prefix \in PrefixInputs :
        LET s == StationNew(callsign, ssid)
        IN /\ s.ok
           /\ parsed = <<>>
           /\ Len(made) < MaxConcat
           /\ made # <<>> => net_prefix = prefix
           /\ call' = [op |-> "encoded", station |-> s.val, net_prefix |-> net_prefix,
                       res |-> StationEncoded(s.val, net_prefix)]
           /\ made' = Append(made, s.val)
           /\ prefix' = net_prefix
           /\ wire' = wire \o StationEncoded(s.val, net_prefix)
           /\ rest' = wire'
           /\ UNCHANGED <<parsed, channelVars, epochVars>>

\* Station::new(callsign, ssid).unwrap().encoded(net_prefix) on its own, for
\* every ssid.
EncodeOne ==
    \E callsign \in ValidCallsigns \cup {Call_W1AW, Call_VK7NTK89}, ssid \in 0..9,
       net_prefix \in PrefixInputs :
        LET s == StationNew(callsign, ssid)
        IN /\ s.ok
           /\ call = NoCall
           /\ call' = [op |-> "encoded", station |-> s.val, net_prefix |-> net_prefix,
                       res |-> StationEncoded(s.val, net_prefix)]
           /\ UNCHANGED <<made, prefix, wire, rest, parsed, channelVars, epochVars>>

\* Station::try_parse(remainder, net_prefix) on what the previous parse left
\* (station.rs:313-315).
ParseNext ==
    /\ made # <<>>
    /\ Len(parsed) < Len(made)
    /\ \A k \in 1..Len(parsed) : parsed[k].ok
    /\ LET r == StationTryParse(rest, prefix)
       IN /\ call' = [op |-> "try_parse", encoded |-> rest, net_prefix |-> prefix,
                      res |-> r]
          /\ parsed' = Append(parsed, r)
          /\ rest' = IF r.ok THEN r.val.rest ELSE rest
    /\ UNCHANGED <<made, prefix, wire, channelVars, epochVars>>

\* Station::try_parse on bytes that no encoder produced, with any net_prefix.
ParseRaw ==
    \E encoded \in RawInputs, net_prefix \in PrefixInputs \cup {Prefix_lower} :
        /\ call = NoCall
        /\ call' = [op |-> "try_parse", encoded |-> encoded, net_prefix |-> net_prefix,
                    res |-> StationTryParse(encoded, net_prefix)]
        /\ UNCHANGED <<made, prefix, wire, rest, parsed, channelVars, epochVars>>

\* Station::try_parse on the first n bytes of an encoding, n less than its
\* length.
ParseTruncated ==
    \E callsign \in ValidCallsigns \cup {Call_W1AW, Call_VK7NTK89}, ssid \in {0, 9},
       net_prefix \in PrefixInputs :
        LET s == StationNew(callsign, ssid)
            whole == StationEncoded(s.val, net_prefix)
        IN /\ s.ok
           /\ call = NoCall
           /\ \E n \in 0..(Len(whole) - 1) :
                  call' = [op |-> "try_parse_truncated", whole |-> whole,
                           encoded |-> SubSeq(whole, 1, n), net_prefix |-> net_prefix,
                           res |-> StationTryParse(SubSeq(whole, 1, n), net_prefix)]
           /\ UNCHANGED <<made, prefix, wire, rest, parsed, channelVars, epochVars>>

\* Network::new(network), and id() of the Network it returned.
NewNetwork ==
    \E network \in NetworkInputs :
        LET r == NetworkNew(network)
        IN /\ call = NoCall
           /\ call' = IF r.ok
                       THEN [op |-> "network_new", network |-> network, res |-> r,
                             id |-> NetworkId(r.val)]
                       ELSE [op |-> "network_new", network |-> network, res |-> r]
           /\ UNCHANGED <<made, prefix, wire, rest, parsed, channelVars, epochVars>>

NextStation ==
    \/ NewStation \/ AppendEncoded \/ EncodeOne
    \/ ParseNext \/ ParseRaw \/ ParseTruncated
    \/ NewNetwork

SpecStation == InitStation /\ [][NextStation]_vars

-----------------------------------------------------------------------------
(* Properties of the station operations, under SpecStation *)

WellFormedStation(s) ==
    /\ s.callsign # <<>>
    /\ \A i \in 1..Len(s.callsign) :
           is_ascii_digit(s.callsign[i]) \/ is_ascii_uppercase(s.callsign[i])
    /\ s.ssid \in 0..9

\* C2: a buffer holding the encoding of one station under a prefix (empty,
\* equal to the callsign, a proper prefix of it, or not matching) parses, under
\* the same prefix, to that station with an empty remainder.
StationRoundTrip ==
    (Len(made) = 1 /\ Len(parsed) = 1) =>
        /\ parsed[1].ok
        /\ parsed[1].val.station = made[1]
        /\ parsed[1].val.rest = <<>>

\* The callsign equal to the prefix has been encoded and parsed back.
StationRoundTripWitness ==
    /\ Len(made) = 1
    /\ Len(parsed) = 1
    /\ prefix = Prefix_VK7
    /\ made[1].callsign = Call_VK7
    /\ parsed[1].ok

\* C3: three encodings concatenated parse, one after the other, to the three
\* stations in order, and the last remainder is empty.
ConcatenatedRoundTrip ==
    Len(made) = 3 =>
        /\ \A k \in 1..Len(parsed) : parsed[k].ok /\ parsed[k].val.station = made[k]
        /\ Len(parsed) = 3 => rest = <<>>

\* C9: every Station that Station::new or Station::try_parse hands out has a
\* non-empty callsign over A-Z and 0-9 and an ssid in 0..9.
EveryStationWellFormed ==
    /\ (call.op = "new" /\ call.res.ok) => WellFormedStation(call.res.val)
    /\ (call.op = "try_parse" /\ call.res.ok) => WellFormedStation(call.res.val.station)

\* C10: Station::new answers InvalidCallsign for a character outside A-Z/0-9,
\* InvalidSsid for a valid callsign with ssid > 9, and otherwise Ok with
\* exactly the callsign and ssid it was given.
StationNewOutcome ==
    call.op = "new" =>
        LET outside == \E i \in 1..Len(call.callsign) :
                           ~ (call.callsign[i] \in (48..57) \cup (65..90))
        IN /\ outside => (~call.res.ok /\ call.res.err = "InvalidCallsign")
           /\ (~outside /\ call.ssid > 9) =>
                  (~call.res.ok /\ call.res.err = "InvalidSsid")
           /\ (~outside /\ call.ssid <= 9) =>
                  /\ call.res.ok
                  /\ call.res.val.callsign = call.callsign
                  /\ call.res.val.ssid = call.ssid

\* Station::new has refused ssid 10 for a valid callsign.
StationNewOutcomeWitness ==
    /\ call.op = "new"
    /\ call.callsign = Call_VK7XT
    /\ call.ssid = 10
    /\ ~call.res.ok
    /\ call.res.err = "InvalidSsid"

\* C11: Network::new(s) is Ok, with id() equal to s, exactly when s has at most
\* 3 characters and all of them are uppercase ASCII letters or digits; otherwise
\* it is Err(InvalidNetwork).
NetworkNewOutcome ==
    call.op = "network_new" =>
        LET valid == /\ Len(call.network) \in 0..3
                     /\ \A i \in 1..Len(call.network) :
                            call.network[i] \in (48..57) \cup (65..90)
        IN IF valid
           THEN call.res.ok /\ call.id = call.network
           ELSE ~call.res.ok /\ call.res.err = "InvalidNetwork"

\* Network::new has refused a four-character id of valid characters.
NetworkNewOutcomeWitness ==
    /\ call.op = "network_new"
    /\ call.network = <<86, 75, 55, 88>>
    /\ ~call.res.ok
    /\ call.res.err = "InvalidNetwork"

\* C12: Station::try_parse answers InvalidStationIdentifier for the empty
\* input, for every encoding cut short of its last byte, and for every input
\* whose first symbol outside 0..35 is one of 56..63.
TruncatedOrInvalidIsError ==
    call.op \in {"try_parse", "try_parse_truncated"} =>
        LET k == FirstNonCallsignSymbol(call.encoded)
            refused == \/ call.encoded = <<>>
                       \/ call.op = "try_parse_truncated"
                       \/ /\ k < SymbolCount(call.encoded)
                          /\ SymbolAt(call.encoded, k) >= 56
        IN refused => (~call.res.ok /\ call.res.err = "InvalidStationIdentifier")

\* VK7XT-0 cut after the four symbols V, K, 7, X, which fill three bytes.
TruncatedOrInvalidIsErrorWitness ==
    /\ call.op = "try_parse_truncated"
    /\ Len(call.whole) = 5
    /\ Len(call.encoded) = 3
    /\ SymbolCount(call.encoded) = 4
    /\ ~call.res.ok

\* C13: Station::try_parse answers InvalidStationIdentifier when the first
\* symbol of the input is a terminal (36..55), so that no callsign symbol
\* precedes it.
TerminalFirstIsError ==
    (/\ call.op = "try_parse"
     /\ call.encoded # <<>>
     /\ SymbolAt(call.encoded, 0) \in 36..55)
        => (~call.res.ok /\ call.res.err = "InvalidStationIdentifier")

\* C14: Station::encoded elides the prefix, and ends with the symbol 46 + ssid,
\* only when the prefix is non-empty, the callsign starts with it and is longer
\* than it; otherwise it writes every character of the callsign and ends with
\* the symbol 36 + ssid.
PrefixElidedOnlyBeforeRemainder ==
    call.op = "encoded" =>
        LET callsign == call.station.callsign
            elided == /\ call.net_prefix # <<>>
                      /\ starts_with(callsign, call.net_prefix)
                      /\ Len(callsign) > Len(call.net_prefix)
            k == FirstNonCallsignSymbol(call.res)
        IN /\ k < SymbolCount(call.res)
           /\ k = IF elided THEN Len(callsign) - Len(call.net_prefix) ELSE Len(callsign)
           /\ SymbolAt(call.res, k) = (IF elided THEN 46 ELSE 36) + call.station.ssid

\* C15: a successful Station::try_parse that read k symbols, the terminal
\* included, returns as remainder the input without its first ceil(6k/8)
\* bytes, whatever follows them.
ConsumesWholeSymbols ==
    (call.op = "try_parse" /\ call.res.ok) =>
        LET k == FirstNonCallsignSymbol(call.encoded) + 1
            n == (6 * k + 7) \div 8
        IN call.res.val.rest = SubSeq(call.encoded, n + 1, Len(call.encoded))

\* C16: Station::encoded is the reference packing of the emitted characters
\* (letters as 0..25, digits as 26..35) and one terminal symbol, 6 bits each,
\* most significant bit first, the last byte padded with zero bits: ceil(6(n+1)/8)
\* bytes for n emitted characters.  VK7XT-5 is 54 A8 57 4E 90 without a prefix
\* and 5D 3C C0 with the prefix VK7.
EncodedIsReferencePacking ==
    call.op = "encoded" =>
        LET elided == UsingNetPrefix(call.station.callsign, call.net_prefix)
            emitted == IF elided
                       THEN SubSeq(call.station.callsign, Len(call.net_prefix) + 1,
                                   Len(call.station.callsign))
                       ELSE call.station.callsign
            n == Len(emitted)
            len == (6 * (n + 1) + 7) \div 8
            padding == 8 * len - 6 * (n + 1)
        IN /\ Len(call.res) = len
           /\ \A k \in 0..(n - 1) :
                  SymbolAt(call.res, k) = IF emitted[k + 1] \in 65..90
                                          THEN emitted[k + 1] - 65
                                          ELSE emitted[k + 1] - 48 + 26
           /\ SymbolAt(call.res, n) = (IF elided THEN 46 ELSE 36) + call.station.ssid
           /\ call.res[len] % (2 ^ padding) = 0
           /\ (call.station = [callsign |-> Call_VK7XT, ssid |-> 5]
               /\ call.net_prefix = <<>>) => call.res = <<84, 168, 87, 78, 144>>
           /\ (call.station = [callsign |-> Call_VK7XT, ssid |-> 5]
               /\ call.net_prefix = Prefix_VK7) => call.res = <<93, 60, 192>>

\* VK7XT-5 has been encoded under the prefix VK7.
EncodedIsReferencePackingWitness ==
    /\ call.op = "encoded"
    /\ call.station = [callsign |-> Call_VK7XT, ssid |-> 5]
    /\ call.net_prefix = Prefix_VK7
    /\ Len(call.res) = 3

-----------------------------------------------------------------------------
(* channel/ax25.rs: the command encoder.  A Command is a record whose field  *)
(* variant names the enum variant, with the fields of that variant's struct. *)

RECURSIVE Flatten(_)
Flatten(seqs) == IF seqs = <<>> THEN <<>> ELSE Head(seqs) \o Flatten(Tail(seqs))

Drop(buf, n) == SubSeq(buf, n + 1, Len(buf))

\* Mutant: Test and V1 swapped.
SsidVersionSwapped(v) == IF v = "Test" THEN 1 ELSE 0

ssid_version(v) == IF v = "Test" THEN 0 ELSE 1

\* Mutant: PingRequest and PingResponse share the tag 15.
CommandByteSharedTag(c) ==
    CASE c.variant = "Status" -> 0
      [] c.variant = "Range" -> 1
      [] c.variant = "InsertFrame" -> 2
      [] c.variant = "RepeatFrame" -> 3
      [] c.variant = "QuickSyncFrameRequest" -> 4
      [] c.variant = "QuickSyncFrameResponse" -> 5
      [] c.variant = "BackfillFrameRequest" -> 6
      [] c.variant = "BackfillFrameResponse" -> 7
      [] c.variant = "EpochRequest" -> 8
      [] c.variant = "QuickEpochResponse" -> 9
      [] c.variant = "EpochResponse" -> 10
      [] c.variant = "BucketContentRequest" -> 11
      [] c.variant = "BucketContentResponse" -> 12
      [] c.variant = "StationDataRequest" -> 13
      [] c.variant = "StationDataResponse" -> 14
      [] OTHER -> 15

command_byte(c) ==
    CASE c.variant = "Status" -> 0
      [] c.variant = "Range" -> 1
      [] c.variant = "InsertFrame" -> 2
      [] c.variant = "RepeatFrame" -> 3
      [] c.variant = "QuickSyncFrameRequest" -> 4
      [] c.variant = "QuickSyncFrameResponse" -> 5
      [] c.variant = "BackfillFrameRequest" -> 6
      [] c.variant = "BackfillFrameResponse" -> 7
      [] c.variant = "EpochRequest" -> 8
      [] c.variant = "QuickEpochResponse" -> 9
      [] c.variant = "EpochResponse" -> 10
      [] c.variant = "BucketContentRequest" -> 11
      [] c.variant = "BucketContentResponse" -> 12
      [] c.variant = "StationDataRequest" -> 13
      [] c.variant = "StationDataResponse" -> 14
      [] c.variant = "PingRequest" -> 15
      [] c.variant = "PingResponse" -> 16

encode_contiguous_range(top, bottom) ==
    IF bottom = 0 THEN U16Bytes(BitOr(top, 32768))
    ELSE U16Bytes(top) \o U16Bytes(bottom)

encode_frame_with_metadata(f) ==
    LET index == BitOr(f.index, Shl16(f.epoch_mod8, 13))
        app0 == BitAnd(f.application, 15)
        app1 == IF f.start_of_message THEN BitOr(app0, 128) ELSE app0
        app2 == IF f.end_of_message THEN BitOr(app1, 64) ELSE app1
    IN U16Bytes(index) \o <<app2>> \o f.data

encode_frame_request(fr, net_prefix) ==
    StationEncoded(fr.target, net_prefix)
        \o StationEncoded(fr.inserter, net_prefix)
        \o U16Bytes(BitOr(fr.index, Shl16(fr.epoch_mod8, 13)))

encode_station_summary(ss, net_prefix) ==
    StationEncoded(ss.station, net_prefix)
        \o encode_contiguous_range(ss.top, ss.bottom)
        \o U32Bytes(ss.epoch_crc)

encode_station_sparse(ss, net_prefix) ==
    StationEncoded(ss.station, net_prefix) \o encode_contiguous_range(ss.top, ss.bottom)

\* `if len % 8 > 0 { len / 8 + 1 } else { len }`
MutualLen(len) == IF len % 8 > 0 THEN len \div 8 + 1 ELSE len

\* The loop over range.stations that sets the is_mutual bits; i is 0-based.
RECURSIVE MutualBits(_, _, _)
MutualBits(stations, i, mutual) ==
    IF i >= Len(stations) THEN mutual
    ELSE MutualBits(stations, i + 1,
            IF stations[i + 1].is_mutual
            THEN [mutual EXCEPT ![i \div 8 + 1] =
                     BitOr(@, BitOr(@, Shl8(1, 7 - (i % 8))))]
            ELSE mutual)

encode_command(c, net_prefix) ==
    LET cmd_byte == command_byte(c)
        Stations(list) == Flatten([i \in 1..Len(list) |->
                                      StationEncoded(list[i].station, net_prefix)])
        Summaries(list) == Flatten([i \in 1..Len(list) |->
                                       encode_station_summary(list[i], net_prefix)])
    IN CASE c.variant = "Status" ->
              <<BitOr(cmd_byte, Shl8(c.epoch_now_mod8, 5))>>
                \o U32Bytes(c.epoch_4_ago_crc) \o U32Bytes(c.epoch_3_ago_crc)
                \o U32Bytes(c.epoch_2_ago_crc) \o U32Bytes(c.epoch_1_ago_crc)
                \o U32Bytes(c.epoch_now_crc) \o U32Bytes(c.epoch_next_crc)
                \o Flatten([i \in 1..Len(c.recently_added) |->
                               encode_station_sparse(c.recently_added[i], net_prefix)])
         [] c.variant = "Range" ->
              <<cmd_byte, BitOr(c.page, Shl8(c.final_page, 4)), Len(c.stations) % 256>>
                \o Stations(c.stations)
                \o MutualBits(c.stations, 0,
                              [k \in 1..MutualLen(Len(c.stations)) |-> 0])
         [] c.variant = "InsertFrame" ->
              <<cmd_byte>> \o encode_frame_with_metadata(c.frame)
         [] c.variant \in {"RepeatFrame", "QuickSyncFrameResponse",
                           "BackfillFrameResponse"} ->
              <<cmd_byte>> \o StationEncoded(c.station, net_prefix)
                \o encode_frame_with_metadata(c.frame)
         [] c.variant \in {"QuickSyncFrameRequest", "BackfillFrameRequest"} ->
              <<cmd_byte>> \o encode_frame_request(c, net_prefix)
         [] c.variant = "EpochRequest" ->
              <<BitOr(cmd_byte, Shl8(c.epoch_mod8, 5))>>
                \o StationEncoded(c.target, net_prefix)
         [] c.variant = "QuickEpochResponse" ->
              <<BitOr(cmd_byte, Shl8(c.epoch_mod8, 5))>> \o Summaries(c.stations)
         [] c.variant = "EpochResponse" ->
              <<BitOr(cmd_byte, Shl8(c.epoch_mod8, 5))>>
                \o Flatten([i \in 1..Len(c.checksums) |-> U32Bytes(c.checksums[i])])
         [] c.variant = "BucketContentRequest" ->
              <<BitOr(cmd_byte, Shl8(c.epoch_mod8, 5))>>
                \o StationEncoded(c.target, net_prefix)
                \o <<BitOr(c.page, Shl8(c.bucket, 4))>>
         [] c.variant = "BucketContentResponse" ->
              <<BitOr(cmd_byte, Shl8(c.epoch_mod8, 5)),
                BitOr(c.page, Shl8(c.final_page, 4))>>
                \o Summaries(c.stations)
         [] c.variant = "StationDataRequest" ->
              <<cmd_byte>> \o StationEncoded(c.target, net_prefix)
                \o StationEncoded(c.station, net_prefix)
                \o U16Bytes(BitOr(c.from_index, Shl16(c.epoch_mod8, 13)))
         [] c.variant = "StationDataResponse" ->
              <<cmd_byte>> \o StationEncoded(c.station, net_prefix)
                \o <<IF c.end_of_data THEN BitOr(c.epoch_mod8, 128) ELSE c.epoch_mod8>>
                \o Flatten([i \in 1..Len(c.ranges) |->
                               encode_contiguous_range(c.ranges[i].top, c.ranges[i].bottom)])
         [] c.variant = "PingRequest" ->
              <<cmd_byte>> \o StationEncoded(c.target, net_prefix)
         [] c.variant = "PingResponse" ->
              <<cmd_byte>> \o StationEncoded(c.target, net_prefix) \o c.diagnostic

-----------------------------------------------------------------------------
(* channel/ax25.rs: the command decoder *)

take_crc(buf) ==
    IF Len(buf) < 4 THEN Err("Truncated")
    ELSE Ok([crc |-> U32FromBytes(buf[1], buf[2], buf[3], buf[4]), rest |-> Drop(buf, 4)])

\* k successive take_crc(...)? calls.
RECURSIVE TakeCrcs(_, _, _)
TakeCrcs(buf, k, crcs) ==
    IF k = 0 THEN Ok([crcs |-> crcs, rest |-> buf])
    ELSE Try(take_crc(buf), LAMBDA r : TakeCrcs(r.rest, k - 1, Append(crcs, r.crc)))

\* Mutant: the marker bit is left in the top index of the short form.
TakeContiguousRangeKeepMarker(buf) ==
    IF buf = <<>> THEN Err("Truncated")
    ELSE IF BitAnd(buf[1], 128) > 0
    THEN IF Len(buf) < 2 THEN Err("Truncated")
         ELSE Ok([top |-> U16FromBytes(buf[1], buf[2]), bottom |-> 0,
                  rest |-> Drop(buf, 2)])
    ELSE IF Len(buf) < 4 THEN Err("Truncated")
         ELSE Ok([top |-> U16FromBytes(buf[1], buf[2]),
                  bottom |-> U16FromBytes(buf[3], buf[4]),
                  rest |-> Drop(buf, 4)])

take_contiguous_range(buf) ==
    IF buf = <<>> THEN Err("Truncated")
    ELSE IF BitAnd(buf[1], 128) > 0
    THEN IF Len(buf) < 2 THEN Err("Truncated")
         ELSE Ok([top |-> U16FromBytes(BitAnd(buf[1], 127), buf[2]), bottom |-> 0,
                  rest |-> Drop(buf, 2)])
    ELSE IF Len(buf) < 4 THEN Err("Truncated")
         ELSE Ok([top |-> U16FromBytes(buf[1], buf[2]),
                  bottom |-> U16FromBytes(buf[3], buf[4]),
                  rest |-> Drop(buf, 4)])

\* Station::try_parse(..).map_err(|_| Ax25Error::InvalidStation)
ParseStation(buf, net_prefix) ==
    MapErr(StationTryParse(buf, net_prefix), "InvalidStation")

take_station_summary(buf, net_prefix) ==
    Try(ParseStation(buf, net_prefix), LAMBDA st :
    Try(take_contiguous_range(st.rest), LAMBDA cr :
    Try(take_crc(cr.rest), LAMBDA crc :
        Ok([summary |-> [station |-> st.station, top |-> cr.top,
                         bottom |-> cr.bottom, epoch_crc |-> crc.crc],
            rest |-> crc.rest]))))

\* `while !remaining.is_empty() { take_station_summary(..)? }`
RECURSIVE TakeSummaries(_, _, _)
TakeSummaries(remaining, net_prefix, stations) ==
    IF remaining = <<>> THEN Ok(stations)
    ELSE Try(take_station_summary(remaining, net_prefix), LAMBDA r :
             TakeSummaries(r.rest, net_prefix, Append(stations, r.summary)))

\* `while !remaining.is_empty() { take_contiguous_range(..)? }`
RECURSIVE TakeRanges(_, _)
TakeRanges(remaining, ranges) ==
    IF remaining = <<>> THEN Ok(ranges)
    ELSE Try(take_contiguous_range(remaining), LAMBDA r :
             TakeRanges(r.rest, Append(ranges, [top |-> r.top, bottom |-> r.bottom])))

\* The `for _ in 0..4` loop of the Status arm; left counts the passes left.
RECURSIVE TakeSparse(_, _, _, _)
TakeSparse(remaining, net_prefix, left, recently_added) ==
    IF left = 0 \/ remaining = <<>> THEN Ok(recently_added)
    ELSE Try(ParseStation(remaining, net_prefix), LAMBDA st :
         Try(take_contiguous_range(st.rest), LAMBDA cr :
             TakeSparse(cr.rest, net_prefix, left - 1,
                        Append(recently_added,
                               [station |-> st.station, top |-> cr.top,
                                bottom |-> cr.bottom]))))

\* The `for _ in 0..stations_len` loop of the Range arm.
RECURSIVE TakeHeard(_, _, _, _)
TakeHeard(remaining, net_prefix, left, stations) ==
    IF left = 0 THEN Ok([stations |-> stations, rest |-> remaining])
    ELSE Try(ParseStation(remaining, net_prefix), LAMBDA st :
             TakeHeard(st.rest, net_prefix, left - 1,
                       Append(stations, [station |-> st.station, is_mutual |-> FALSE])))

\* The loop that reads the is_mutual bits: `remaining.get(i / 8)`.
ReadMutual(stations, remaining) ==
    IF \E i \in 0..(Len(stations) - 1) : i \div 8 + 1 > Len(remaining)
    THEN Err("Truncated")
    ELSE Ok([k \in 1..Len(stations) |->
                [stations[k] EXCEPT !.is_mutual =
                    BitAnd(remaining[(k - 1) \div 8 + 1],
                           Shl8(1, 7 - ((k - 1) % 8))) > 0]])

\* Mutant: the index is masked to 12 bits.
DecodeFrameIndex12Bits(buf) ==
    IF Len(buf) < 3 THEN Err("Truncated")
    ELSE Ok([epoch_mod8 |-> Shr(buf[1], 5),
             index |-> BitAnd(U16FromBytes(buf[1], buf[2]), 4095),
             start_of_message |-> BitAnd(buf[3], 128) > 0,
             end_of_message |-> BitAnd(buf[3], 64) > 0,
             application |-> BitAnd(buf[3], 15),
             data |-> Drop(buf, 3)])

decode_frame_with_metadata(buf) ==
    IF Len(buf) < 3 THEN Err("Truncated")
    ELSE Ok([epoch_mod8 |-> Shr(buf[1], 5),
             index |-> BitAnd(U16FromBytes(buf[1], buf[2]), 8191),
             start_of_message |-> BitAnd(buf[3], 128) > 0,
             end_of_message |-> BitAnd(buf[3], 64) > 0,
             application |-> BitAnd(buf[3], 15),
             data |-> Drop(buf, 3)])

\* Ok carries the FrameRequest fields.
decode_frame_request(buf, net_prefix) ==
    Try(ParseStation(buf, net_prefix), LAMBDA target :
    Try(ParseStation(target.rest, net_prefix), LAMBDA inserter :
        IF Len(inserter.rest) < 2 THEN Err("Truncated")
        ELSE Ok([target |-> target.station,
                 inserter |-> inserter.station,
                 epoch_mod8 |-> Shr(inserter.rest[1], 5),
                 index |-> BitAnd(U16FromBytes(inserter.rest[1], inserter.rest[2]),
                                  8191)])))

\* std::str::from_utf8: well-formed UTF-8 (no overlong forms, no surrogates,
\* nothing above U+10FFFF).
RECURSIVE Utf8Valid(_)
Utf8Valid(b) ==
    LET Cont(k, lo, hi) == Len(b) >= k /\ b[k] >= lo /\ b[k] <= hi
    IN IF b = <<>> THEN TRUE
       ELSE IF b[1] < 128 THEN Utf8Valid(Drop(b, 1))
       ELSE IF b[1] \in 194..223
            THEN Cont(2, 128, 191) /\ Utf8Valid(Drop(b, 2))
       ELSE IF b[1] = 224
            THEN Cont(2, 160, 191) /\ Cont(3, 128, 191) /\ Utf8Valid(Drop(b, 3))
       ELSE IF b[1] \in (225..236) \cup {238, 239}
            THEN Cont(2, 128, 191) /\ Cont(3, 128, 191) /\ Utf8Valid(Drop(b, 3))
       ELSE IF b[1] = 237
            THEN Cont(2, 128, 159) /\ Cont(3, 128, 191) /\ Utf8Valid(Drop(b, 3))
       ELSE IF b[1] = 240
            THEN Cont(2, 144, 191) /\ Cont(3, 128, 191) /\ Cont(4, 128, 191)
                 /\ Utf8Valid(Drop(b, 4))
       ELSE IF b[1] \in 241..243
            THEN Cont(2, 128, 191) /\ Cont(3, 128, 191) /\ Cont(4, 128, 191)
                 /\ Utf8Valid(Drop(b, 4))
       ELSE IF b[1] = 244
            THEN Cont(2, 128, 143) /\ Cont(3, 128, 191) /\ Cont(4, 128, 191)
                 /\ Utf8Valid(Drop(b, 4))
       ELSE FALSE

\* The arms that read a station and then a FrameWithMetadata (tags 3, 5, 7).
DecodeFrameDefinition(variant, buf, net_prefix) ==
    Try(ParseStation(buf, net_prefix), LAMBDA st :
    Try(decode_frame_with_metadata(st.rest), LAMBDA frame :
        Ok([variant |-> variant, station |-> st.station, frame |-> frame])))

\* Mutant: the arms of tags 4 and 6 both build a QuickSyncFrameRequest.
DecodeFrameRequestAlwaysQuickSync(variant, buf, net_prefix) ==
    Try(decode_frame_request(buf, net_prefix), LAMBDA r :
        Ok([variant |-> "QuickSyncFrameRequest", target |-> r.target,
            inserter |-> r.inserter, epoch_mod8 |-> r.epoch_mod8, index |-> r.index]))

\* The arms that read a FrameRequest (tags 4, 6).
DecodeFrameRequestCommand(variant, buf, net_prefix) ==
    Try(decode_frame_request(buf, net_prefix), LAMBDA r :
        Ok([variant |-> variant, target |-> r.target, inserter |-> r.inserter,
            epoch_mod8 |-> r.epoch_mod8, index |-> r.index]))

\* `match info[0] & 0b00011111 { ... }` of decode_transmission; info is not empty.
DecodeCommand(info, net_prefix) ==
    LET tag == BitAnd(info[1], 31)
        top3 == Shr(info[1], 5)
        body == Drop(info, 1)
    IN CASE tag = 0 ->
              Try(TakeCrcs(body, 6, <<>>), LAMBDA crcs :
              Try(TakeSparse(crcs.rest, net_prefix, 4, <<>>), LAMBDA added :
                  Ok([variant |-> "Status",
                      epoch_now_mod8 |-> top3,
                      epoch_4_ago_crc |-> crcs.crcs[1],
                      epoch_3_ago_crc |-> crcs.crcs[2],
                      epoch_2_ago_crc |-> crcs.crcs[3],
                      epoch_1_ago_crc |-> crcs.crcs[4],
                      epoch_now_crc |-> crcs.crcs[5],
                      epoch_next_crc |-> crcs.crcs[6],
                      recently_added |-> added])))
         [] tag = 1 ->
              IF Len(info) < 3 THEN Err("Truncated")
              ELSE Try(TakeHeard(Drop(info, 3), net_prefix, info[3], <<>>), LAMBDA heard :
                   Try(ReadMutual(heard.stations, heard.rest), LAMBDA stations :
                       Ok([variant |-> "Range",
                           final_page |-> Shr(info[2], 4),
                           page |-> BitAnd(info[2], 15),
                           stations |-> stations])))
         [] tag = 2 ->
              Try(decode_frame_with_metadata(body), LAMBDA frame :
                  Ok([variant |-> "InsertFrame", frame |-> frame]))
         [] tag = 3 -> DecodeFrameDefinition("RepeatFrame", body, net_prefix)
         [] tag = 4 -> DecodeFrameRequestCommand("QuickSyncFrameRequest", body, net_prefix)
         [] tag = 5 -> DecodeFrameDefinition("QuickSyncFrameResponse", body, net_prefix)
         [] tag = 6 -> DecodeFrameRequestCommand("BackfillFrameRequest", body, net_prefix)
         [] tag = 7 -> DecodeFrameDefinition("BackfillFrameResponse", body, net_prefix)
         [] tag = 8 ->
              Try(ParseStation(body, net_prefix), LAMBDA target :
                  Ok([variant |-> "EpochRequest", target |-> target.station,
                      epoch_mod8 |-> top3]))
         [] tag = 9 ->
              Try(TakeSummaries(body, net_prefix, <<>>), LAMBDA stations :
                  Ok([variant |-> "QuickEpochResponse", epoch_mod8 |-> top3,
                      stations |-> stations]))
         [] tag = 10 ->
              Try(TakeCrcs(body, 16, <<>>), LAMBDA crcs :
                  Ok([variant |-> "EpochResponse", epoch_mod8 |-> top3,
                      checksums |-> crcs.crcs]))
         [] tag = 11 ->
              Try(ParseStation(body, net_prefix), LAMBDA target :
                  IF Len(target.rest) < 1 THEN Err("Truncated")
                  ELSE Ok([variant |-> "BucketContentRequest",
                           target |-> target.station,
                           epoch_mod8 |-> top3,
                           bucket |-> Shr(target.rest[1], 4),
                           page |-> BitAnd(target.rest[1], 15)]))
         [] tag = 12 ->
              IF Len(info) < 2 THEN Err("Truncated")
              ELSE Try(TakeSummaries(Drop(info, 2), net_prefix, <<>>), LAMBDA stations :
                       Ok([variant |-> "BucketContentResponse",
                           epoch_mod8 |-> top3,
                           final_page |-> Shr(info[2], 4),
                           page |-> BitAnd(info[2], 15),
                           stations |-> stations]))
         [] tag = 13 ->
              Try(ParseStation(body, net_prefix), LAMBDA target :
              Try(ParseStation(target.rest, net_prefix), LAMBDA station :
                  IF Len(station.rest) < 2 THEN Err("Truncated")
                  ELSE Ok([variant |-> "StationDataRequest",
                           target |-> target.station,
                           station |-> station.station,
                           epoch_mod8 |-> Shr(station.rest[1], 5),
                           from_index |->
                               BitAnd(U16FromBytes(station.rest[1], station.rest[2]),
                                      8191)])))
         [] tag = 14 ->
              Try(ParseStation(body, net_prefix), LAMBDA station :
                  IF station.rest = <<>> THEN Err("Truncated")
                  ELSE Try(TakeRanges(Drop(station.rest, 1), <<>>), LAMBDA ranges :
                           Ok([variant |-> "StationDataResponse",
                               station |-> station.station,
                               epoch_mod8 |-> BitAnd(station.rest[1], 7),
                               end_of_data |-> BitAnd(station.rest[1], 128) > 0,
                               ranges |-> ranges])))
         [] tag = 15 ->
              Try(ParseStation(body, net_prefix), LAMBDA target :
                  Ok([variant |-> "PingRequest", target |-> target.station]))
         [] tag = 16 ->
              Try(ParseStation(body, net_prefix), LAMBDA target :
                  IF ~Utf8Valid(target.rest) THEN Err("InvalidUtf8")
                  ELSE Ok([variant |-> "PingResponse", target |-> target.station,
                           diagnostic |-> target.rest]))
         [] OTHER -> Err("InvalidCommand")

-----------------------------------------------------------------------------
(* channel/ax25.rs: frames.  An Ax25Frame is a record of source and          *)
(* destination Address (callsign, ssid), content kind and info bytes; an     *)
(* Address is what the ax25 crate's Address::from_str and Display give.      *)

CHT == <<67, 72, 84>>

RECURSIVE ParseDecimal(_, _)
ParseDecimal(digits, acc) ==
    IF digits = <<>> THEN acc
    ELSE ParseDecimal(Tail(digits), acc * 10 + (Head(digits) - 48))

Decimal(n) ==
    IF n < 10 THEN <<48 + n>>
    ELSE IF n < 100 THEN <<48 + (n \div 10), 48 + (n % 10)>>
    ELSE <<48 + (n \div 100), 48 + ((n \div 10) % 10), 48 + (n % 10)>>

\* Address::from_str("CALL-SSID").unwrap() for a callsign of 1 to 6 letters or
\* digits and an SSID of 0 to 15: the part before the dash and the number after.
AddressFromStr(str) ==
    LET dash == CHOOSE i \in 1..Len(str) : str[i] = 45
    IN [callsign |-> SubSeq(str, 1, dash - 1),
        ssid |-> ParseDecimal(Drop(str, dash), 0)]

\* Address's Display: "CALL-SSID"; whether SSID 0 prints as "CALL" alone is
\* the linked crate's choice (shortZero).
AddressToString(a) ==
    IF a.ssid = 0 /\ shortZero THEN a.callsign
    ELSE a.callsign \o <<45>> \o Decimal(a.ssid)

\* The bytes the sender feeds to its Hasher: src_addr_str, dest_addr_str, info.
PacketHashInput(t) ==
    StationToString(t.sender)
      \o CHT \o t.network \o <<45>> \o Decimal(ssid_version(t.version))
      \o encode_command(t.command, t.network)

encode_transmission(t) ==
    LET version == ssid_version(t.version)
        dest_addr_str == CHT \o t.network \o <<45>> \o Decimal(version)
        src_addr_str == StationToString(t.sender)
        info == encode_command(t.command, t.network)
        packet_hash == Crc32(PacketHashInput(t))
    IN [source |-> AddressFromStr(src_addr_str),
        destination |-> AddressFromStr(dest_addr_str),
        content |-> "UnnumberedInformation",
        info |-> info \o U32Bytes(packet_hash)]

\* Mutant: only the first two letters of the destination are compared.
IsChatterooDestinationCH(callsign) == starts_with(callsign, <<67, 72>>)

IsChatterooDestination(callsign) == starts_with(callsign, CHT)

\* `match frame.destination.ssid { 0 => Test, 1 => V1, n => return Err(..) }`
DecodeVersion(ssid) ==
    IF ssid = 0 THEN Ok("Test")
    ELSE IF ssid = 1 THEN Ok("V1")
    ELSE [ok |-> FALSE, val |-> <<>>, err |-> "InvalidChatterooVersion", version |-> ssid]

\* The bytes the receiver feeds to its Hasher: frame.source.to_string(), the
\* destination callsign, [b'-', ssid + b'0'], info.
ReceivedHashInput(f, info) ==
    AddressToString(f.source)
      \o f.destination.callsign
      \o <<45, f.destination.ssid + 48>>
      \o info

\* The checksum the receiver computes over the frame's addresses and command bytes.
ReceivedHash(f, info) == Crc32(ReceivedHashInput(f, info))

\* Mutant: only the low 16 bits of the checksum are compared.
HashesMatchLow16(packet_hash, received_hash) == packet_hash[2] = received_hash[2]

HashesMatch(packet_hash, received_hash) == packet_hash = received_hash

decode_transmission(f, net_prefix) ==
    IF ~IsChatterooDestination(f.destination.callsign) THEN Err("NotChatteroo")
    ELSE IF f.content # "UnnumberedInformation" THEN Err("NotChatteroo")
    ELSE LET version == DecodeVersion(f.destination.ssid)
             network == NetworkNew(Drop(f.destination.callsign, 3))
             sender == StationNew(f.source.callsign, f.source.ssid)
             n == Len(f.info)
             info == SubSeq(f.info, 1, n - 4)
             packet_hash == U32FromBytes(f.info[n - 3], f.info[n - 2],
                                         f.info[n - 1], f.info[n])
         IN IF ~version.ok THEN version
            ELSE IF ~network.ok THEN Panicked
            ELSE IF ~sender.ok
                 THEN [ok |-> FALSE, val |-> <<>>, err |-> "ProtocolError",
                       source |-> sender.err]
            ELSE IF n < 4 THEN Err("Truncated")
            ELSE IF ~HashesMatch(packet_hash, ReceivedHash(f, info))
                 THEN Err("CrcMismatch")
            ELSE IF info = <<>> THEN Err("InvalidCommand")
            ELSE Try(DecodeCommand(info, net_prefix), LAMBDA command :
                     Ok([version |-> version.val, network |-> network.val,
                         sender |-> sender.val, command |-> command]))

-----------------------------------------------------------------------------
(* Inputs of the channel operations *)

St(callsign, ssid) == [callsign |-> callsign, ssid |-> ssid]

\* 0xAAAAAAAA ... 0xFFFFFFFF of tests::basic_roundtrip (ax25.rs:691-696).
CrcA == <<43690, 43690>>
CrcB == <<48059, 48059>>
CrcC == <<52428, 52428>>
CrcD == <<56797, 56797>>
CrcE == <<61166, 61166>>
CrcF == <<65535, 65535>>

Sparse(station, top, bottom) == [station |-> station, top |-> top, bottom |-> bottom]
Summary(station, top, bottom, epoch_crc) ==
    [station |-> station, top |-> top, bottom |-> bottom, epoch_crc |-> epoch_crc]
Heard(station, is_mutual) == [station |-> station, is_mutual |-> is_mutual]

Status(epoch_now_mod8, recently_added) ==
    [variant |-> "Status", epoch_now_mod8 |-> epoch_now_mod8,
     epoch_4_ago_crc |-> CrcA, epoch_3_ago_crc |-> CrcB, epoch_2_ago_crc |-> CrcC,
     epoch_1_ago_crc |-> CrcD, epoch_now_crc |-> CrcE, epoch_next_crc |-> CrcF,
     recently_added |-> recently_added]

\* Every field at its largest documented value, and at its smallest.
FrameFull ==
    [epoch_mod8 |-> 7, index |-> 8191, start_of_message |-> TRUE,
     end_of_message |-> FALSE, application |-> 15, data |-> <<1, 255>>]
FrameEmpty ==
    [epoch_mod8 |-> 0, index |-> 0, start_of_message |-> FALSE,
     end_of_message |-> TRUE, application |-> 0, data |-> <<>>]

FrameDefinition(variant, station, f) ==
    [variant |-> variant, station |-> station, frame |-> f]
FrameRequest(variant, target, inserter, epoch_mod8, index) ==
    [variant |-> variant, target |-> target, inserter |-> inserter,
     epoch_mod8 |-> epoch_mod8, index |-> index]

\* Eight stations: a station count that is a multiple of 8.
EightHeard ==
    [i \in 1..8 |-> Heard(St(<<65, 65 + i>>, i), i % 2 = 1)]

\* Five recently added stations: one more than the Status arm of the decoder
\* reads.
FiveAdded ==
    [i \in 1..5 |-> Sparse(St(<<65, 65 + i>>, i), i, 0)]

Text_ChatterooV1 == <<67, 104, 97, 116, 116, 101, 114, 111, 111, 32, 118, 49>>

SampleCommands ==
    { Status(1, <<Sparse(St(Call_VK7XT, 4), 50, 0)>>),
      Status(0, <<>>),
      Status(7, <<Sparse(St(Call_VK7FDAE, 4), 300, 200), Sparse(St(Call_A, 0), 8191, 0),
                  Sparse(St(Call_VK7NTK, 8), 1, 1), Sparse(St(Call_VK7, 9), 0, 0)>>),
      Status(2, FiveAdded),
      [variant |-> "Range", final_page |-> 0, page |-> 0, stations |-> <<>>],
      [variant |-> "Range", final_page |-> 15, page |-> 3,
       stations |-> <<Heard(St(Call_VK7XT, 5), TRUE), Heard(St(Call_W1AW, 9), FALSE),
                      Heard(St(Call_VK7FDAE, 4), TRUE)>>],
      [variant |-> "Range", final_page |-> 1, page |-> 1, stations |-> EightHeard],
      [variant |-> "InsertFrame", frame |-> FrameFull],
      [variant |-> "InsertFrame", frame |-> FrameEmpty],
      FrameDefinition("RepeatFrame", St(Call_VK7XT, 5), FrameFull),
      FrameDefinition("RepeatFrame", St(Call_VK7FDAE, 4), FrameEmpty),
      FrameRequest("QuickSyncFrameRequest", St(Call_VK7XT, 5), St(Call_VK7NTK, 8), 3, 300),
      FrameDefinition("QuickSyncFrameResponse", St(Call_VK7NTK, 8), FrameFull),
      FrameRequest("BackfillFrameRequest", St(Call_A, 0), St(Call_VK7FDAE, 4), 7, 8191),
      FrameDefinition("BackfillFrameResponse", St(Call_A, 0), FrameEmpty),
      [variant |-> "EpochRequest", target |-> St(Call_VK7XT, 5), epoch_mod8 |-> 5],
      [variant |-> "EpochRequest", target |-> St(Call_VK7, 0), epoch_mod8 |-> 0],
      [variant |-> "QuickEpochResponse", epoch_mod8 |-> 2, stations |-> <<>>],
      [variant |-> "QuickEpochResponse", epoch_mod8 |-> 7,
       stations |-> <<Summary(St(Call_VK7XT, 5), 100, 0, CrcA),
                      Summary(St(Call_W1AW, 9), 300, 200, <<0, 1>>)>>],
      [variant |-> "EpochResponse", epoch_mod8 |-> 3,
       checksums |-> [i \in 1..16 |-> <<0, i>>]],
      [variant |-> "BucketContentRequest", target |-> St(Call_VK7XT, 5),
       epoch_mod8 |-> 6, bucket |-> 15, page |-> 0],
      [variant |-> "BucketContentResponse", epoch_mod8 |-> 4, final_page |-> 2,
       page |-> 1, stations |-> <<Summary(St(Call_A, 0), 5, 0, CrcF)>>],
      [variant |-> "BucketContentResponse", epoch_mod8 |-> 0, final_page |-> 0,
       page |-> 0, stations |-> <<>>],
      [variant |-> "StationDataRequest", target |-> St(Call_VK7XT, 5),
       station |-> St(Call_W1AW, 9), epoch_mod8 |-> 7, from_index |-> 8191],
      [variant |-> "StationDataResponse", station |-> St(Call_VK7XT, 5),
       epoch_mod8 |-> 5, end_of_data |-> TRUE,
       ranges |-> <<[top |-> 100, bottom |-> 0], [top |-> 300, bottom |-> 200]>>],
      [variant |-> "StationDataResponse", station |-> St(Call_A, 0),
       epoch_mod8 |-> 0, end_of_data |-> FALSE, ranges |-> <<>>],
      [variant |-> "PingRequest", target |-> St(Call_VK7XT, 5)],
      [variant |-> "PingRequest", target |-> St(Call_VK7FDAE, 4)],
      [variant |-> "PingResponse", target |-> St(Call_VK7XT, 5),
       diagnostic |-> Text_ChatterooV1],
      [variant |-> "PingResponse", target |-> St(Call_VK7NTK, 8),
       diagnostic |-> <<195, 169>>] }

Transmission(version, network, sender, command) ==
    [version |-> version, network |-> network, sender |-> sender, command |-> command]

\* Every sample command in the network VK7 and in the network with the empty
\* id; both versions and senders with SSID 0, 4 and 9 around a PingRequest.
Transmissions ==
    {Transmission("Test", Prefix_VK7, St(Call_VK7XT, 4), c) : c \in SampleCommands}
      \cup {Transmission("V1", <<>>, St(Call_VK7NTK, 9), c) : c \in SampleCommands}
      \cup {Transmission(v, n, sender, [variant |-> "PingRequest",
                                        target |-> St(Call_VK7XT, 5)]) :
               v \in {"Test", "V1"}, n \in {<<>>, Prefix_VK7},
               sender \in {St(Call_A, 0), St(Call_VK7XT, 4), St(Call_VK7NTK, 9)}}

\* net_prefix arguments of decode_transmission.
RxPrefixes == {<<>>, Prefix_VK7}

\* Frames that no encode_transmission of this crate produced.

Addr(callsign, ssid) == [callsign |-> callsign, ssid |-> ssid]

Dest_CHTVK7 == <<67, 72, 84, 86, 75, 55>>
Dest_XXX == <<88, 88, 88>>
Dest_CH == <<67, 72>>
Dest_XCHT == <<88, 67, 72, 84>>
Dest_CHTvk7 == <<67, 72, 84, 118, 107, 55>>
Dest_CHTVK7X == <<67, 72, 84, 86, 75, 55, 88>>

\* CHT with a network, bare CHT, three that do not begin with CHT, and two whose
\* suffix after CHT is no network id (lowercase; four characters).
DestinationCallsigns ==
    {Dest_CHTVK7, CHT, Dest_XXX, Dest_CH, Dest_XCHT, Dest_CHTvk7, Dest_CHTVK7X}

\* AX.25 SSIDs are 0 to 15.
DestinationSsids == {0, 1, 2, 15}

\* A valid sender, an SSID above 9, a lowercase callsign.
Sources == {Addr(Call_VK7XT, 4), Addr(Call_VK7XT, 12), Addr(Call_vk7, 0)}

\* Command bytes together with the checksum the receiver will compute for
\* them in frame f: what a conforming peer sends.
Sealed(f, command_bytes) ==
    [f EXCEPT !.info = command_bytes \o U32Bytes(ReceivedHash(f, command_bytes))]

\* The same with the last checksum byte off by one.
Missealed(f, command_bytes) ==
    LET good == Sealed(f, command_bytes).info
    IN [f EXCEPT !.info = [good EXCEPT ![Len(good)] = (@ + 1) % 256]]

RECURSIVE Truncations(_)
Truncations(bytes) ==
    IF bytes = <<>> THEN {<<>>}
    ELSE {bytes} \cup Truncations(SubSeq(bytes, 1, Len(bytes) - 1))

\* Command bytes: every truncation of every sample command's encoding, every
\* value of the command byte's low five bits with the top three set and clear,
\* page bytes with page > final_page, a PingRequest and an EpochRequest followed
\* by one more byte, and a PingRequest whose station has a padding bit set.
TruncatedCommands ==
    UNION {Truncations(encode_command(c, Prefix_VK7)) : c \in SampleCommands}

CommandBytes ==
    TruncatedCommands
      \cup {<<tag>> : tag \in 0..31}
      \cup {<<224 + tag, 144>> : tag \in 0..31}
      \cup {<<1, 15, 0>>, <<1, 255, 0>>, <<12, 15>>, <<44, 31>>,
            <<16, 144, 255>>, <<16, 144, 195>>, <<16, 144, 195, 169>>,
            <<15, 144, 7>>, <<15, 145>>, <<8, 84, 168, 87, 78, 144, 7>>}

-----------------------------------------------------------------------------
(* Channel operations as steps of a sender, the channel and a receiver *)

Init ==
    /\ EpochIdle
    /\ call = NoCall
    /\ made = <<>>
    /\ prefix = <<>>
    /\ wire = <<>>
    /\ rest = <<>>
    /\ parsed = <<>>
    /\ shortZero \in BOOLEAN
    /\ tx = NoTransmission
    /\ air = NoFrame
    /\ flipped = FALSE
    /\ rx = NoRx

\* encode_transmission(&t)
EncodeTransmission ==
    \E t \in Transmissions :
        /\ air = NoFrame
        /\ tx' = t
        /\ air' = encode_transmission(t)
        /\ UNCHANGED <<stationVars, epochVars, shortZero, flipped, rx>>

\* The channel flips one bit of the info field of an encoded frame.
FlipBit ==
    /\ tx # NoTransmission
    /\ ~flipped
    /\ rx = NoRx
    /\ \E i \in 0..(8 * Len(air.info) - 1) :
        /\ air' = [air EXCEPT !.info[i \div 8 + 1] = BitXor(@, 2 ^ (7 - (i % 8)))]
        /\ flipped' = TRUE
        /\ UNCHANGED <<stationVars, epochVars, shortZero, tx, rx>>

\* A frame from elsewhere: any addresses and content kind, around a checksummed
\* PingRequest, a wrong checksum, and info fields shorter than a checksum.
ReceiveEnvelope ==
    \E dest \in DestinationCallsigns, ssid \in DestinationSsids, source \in Sources,
       content \in {"UnnumberedInformation", "Other"}, kind \in 0..3 :
        LET f == [source |-> source, destination |-> Addr(dest, ssid),
                  content |-> content, info |-> <<>>]
        IN /\ air = NoFrame
           /\ air' = IF content # "UnnumberedInformation" THEN f
                     ELSE CASE kind = 0 -> Sealed(f, <<15, 144>>)
                            [] kind = 1 -> Missealed(f, <<15, 144>>)
                            [] kind = 2 -> [f EXCEPT !.info = <<15, 144, 0>>]
                            [] OTHER -> f
           /\ UNCHANGED <<stationVars, epochVars, shortZero, tx, flipped, rx>>

\* A checksum-valid frame from a peer in network VK7 carrying any command bytes.
ReceiveCommand ==
    \E command_bytes \in CommandBytes, ssid \in {0, 1} :
        LET f == [source |-> Addr(Call_VK7XT, 4), destination |-> Addr(Dest_CHTVK7, ssid),
                  content |-> "UnnumberedInformation", info |-> <<>>]
        IN /\ air = NoFrame
           /\ air' = Sealed(f, command_bytes)
           /\ UNCHANGED <<stationVars, epochVars, shortZero, tx, flipped, rx>>

\* decode_transmission(&frame, net_prefix)
DecodeTransmission ==
    \E net_prefix \in RxPrefixes :
        /\ air # NoFrame
        /\ rx = NoRx
        /\ rx' = [net_prefix |-> net_prefix, res |-> decode_transmission(air, net_prefix)]
        /\ UNCHANGED <<stationVars, epochVars, shortZero, tx, air, flipped>>

Next == EncodeTransmission \/ FlipBit \/ ReceiveEnvelope \/ ReceiveCommand \/ DecodeTransmission

Spec == Init /\ [][Next]_vars

-----------------------------------------------------------------------------
(* Properties of the channel operations, checked under Spec *)

\* A frame of this crate's own encoder, delivered unchanged, and decoded with
\* the id of the network it was sent in; the ax25 crate printing every SSID.
DeliveredIntact ==
    /\ tx # NoTransmission
    /\ ~flipped
    /\ ~shortZero
    /\ rx # NoRx
    /\ rx.net_prefix = tx.network

\* C1: decode_transmission(encode_transmission(t), t.network.id()) is Ok(t') with
\* t' equal to t in every field, for every valid Transmission t.
TransmissionRoundTrip ==
    DeliveredIntact => rx.res.ok /\ rx.res.val = tx

\* C4: decode_transmission returns Ok or Err and never panics, whatever the info
\* bytes, the destination callsign suffix after CHT, the destination SSID and
\* the source address.
DecodeNeverPanics ==
    rx # NoRx => rx.res.err # "Panic"

\* C5: a frame of encode_transmission with any single bit of its info field
\* flipped decodes to Err(CrcMismatch); no Transmission is returned.
BitFlipIsCrcMismatch ==
    (flipped /\ rx # NoRx) => ~rx.res.ok /\ rx.res.err = "CrcMismatch"

BitFlipIsCrcMismatchWitness ==
    /\ flipped
    /\ rx # NoRx
    /\ air.info # encode_transmission(tx).info
    /\ Len(air.info) = Len(encode_transmission(tx).info)
    /\ rx.res.err = "CrcMismatch"

\* C6: a frame whose destination callsign does not begin with CHT, or whose
\* content is not unnumbered information, decodes to Err(NotChatteroo) and to no
\* other error, whatever its version, sender, checksum and command bytes.
NotChatterooFirst ==
    (/\ rx # NoRx
     /\ \/ Len(air.destination.callsign) < 3
        \/ SubSeq(air.destination.callsign, 1, 3) # <<67, 72, 84>>
        \/ air.content # "UnnumberedInformation")
        => ~rx.res.ok /\ rx.res.err = "NotChatteroo"

NotChatterooFirstWitness ==
    /\ rx # NoRx
    /\ air.destination.callsign = Dest_CH
    /\ air.destination.ssid = 15
    /\ air.source.ssid = 12
    /\ air.content = "UnnumberedInformation"
    /\ rx.res.err = "NotChatteroo"

\* C7: encode_transmission puts the version in the destination SSID, 0 for Test
\* and 1 for V1; decode_transmission of a CHT-addressed UI frame maps SSID 0 to
\* Test and 1 to V1 and returns Err(InvalidChatterooVersion(n)) for any other n.
VersionIsDestinationSsid ==
    /\ tx # NoTransmission =>
          air.destination.ssid = (IF tx.version = "Test" THEN 0 ELSE 1)
    /\ (/\ rx # NoRx
        /\ Len(air.destination.callsign) >= 3
        /\ SubSeq(air.destination.callsign, 1, 3) = <<67, 72, 84>>
        /\ air.content = "UnnumberedInformation") =>
          IF air.destination.ssid \in {0, 1}
          THEN rx.res.ok =>
                  rx.res.val.version = (IF air.destination.ssid = 0 THEN "Test" ELSE "V1")
          ELSE /\ ~rx.res.ok
               /\ rx.res.err = "InvalidChatterooVersion"
               /\ rx.res.version = air.destination.ssid

VersionIsDestinationSsidWitness ==
    /\ rx # NoRx
    /\ air.destination.callsign = Dest_CHTVK7
    /\ air.destination.ssid = 15
    /\ air.content = "UnnumberedInformation"
    /\ rx.res.err = "InvalidChatterooVersion"

\* The field ranges of a decoded command.
CommandInRange(c) ==
    CASE c.variant = "Status" -> c.epoch_now_mod8 < 8
      [] c.variant = "Range" -> c.page <= c.final_page /\ c.final_page <= 15
      [] c.variant \in {"InsertFrame", "RepeatFrame", "QuickSyncFrameResponse",
                        "BackfillFrameResponse"} ->
           c.frame.epoch_mod8 < 8 /\ c.frame.index < 8192 /\ c.frame.application < 16
      [] c.variant \in {"QuickSyncFrameRequest", "BackfillFrameRequest"} ->
           c.epoch_mod8 < 8 /\ c.index < 8192
      [] c.variant = "BucketContentRequest" ->
           c.epoch_mod8 < 8 /\ c.bucket <= 15 /\ c.page <= 15
      [] c.variant = "BucketContentResponse" ->
           c.epoch_mod8 < 8 /\ c.page <= c.final_page /\ c.final_page <= 15
      [] c.variant = "StationDataRequest" -> c.epoch_mod8 < 8 /\ c.from_index < 8192
      [] c.variant \in {"EpochRequest", "QuickEpochResponse", "EpochResponse",
                        "StationDataResponse"} -> c.epoch_mod8 < 8
      [] OTHER -> TRUE

\* C8: every command returned in Ok by decode_transmission has epoch_mod8 < 8,
\* index and from_index < 8192, application < 16 and, for Range and
\* BucketContentResponse, page <= final_page <= 15.
DecodedFieldsInRange ==
    (rx # NoRx /\ rx.res.ok) => CommandInRange(rx.res.val.command)


\* The variants of Command in the order of the enum.
CommandVariants ==
    <<"Status", "Range", "InsertFrame", "RepeatFrame", "QuickSyncFrameRequest",
      "QuickSyncFrameResponse", "BackfillFrameRequest", "BackfillFrameResponse",
      "EpochRequest", "QuickEpochResponse", "EpochResponse", "BucketContentRequest",
      "BucketContentResponse", "StationDataRequest", "StationDataResponse",
      "PingRequest", "PingResponse">>

\* A CHT-addressed UI frame with a known version, a network id and a valid
\* sender, whose last four info bytes are the checksum of the rest.
ChecksumValid(f) ==
    /\ f.content = "UnnumberedInformation"
    /\ IsChatterooDestination(f.destination.callsign)
    /\ f.destination.ssid \in {0, 1}
    /\ NetworkNew(Drop(f.destination.callsign, 3)).ok
    /\ StationNew(f.source.callsign, f.source.ssid).ok
    /\ Len(f.info) >= 4
    /\ SubSeq(f.info, Len(f.info) - 3, Len(f.info))
         = U32Bytes(ReceivedHash(f, SubSeq(f.info, 1, Len(f.info) - 4)))

\* C21: the first byte of encode_command holds the variant's tag, 0 to 16, in
\* its low 5 bits; its top 3 bits are epoch_mod8 for Status, EpochRequest,
\* QuickEpochResponse, EpochResponse, BucketContentRequest and
\* BucketContentResponse, and 0 for the others (EpochResponse of epoch 3 starts
\* with 0x6A and has 65 bytes); checksum-valid command bytes whose tag is 17 to
\* 31 decode to Err(InvalidCommand).
CommandByteLayout ==
    /\ (tx # NoTransmission /\ ~flipped) =>
          LET c == tx.command
              first == air.info[1]
          IN /\ first % 32 \in 0..16
             /\ CommandVariants[(first % 32) + 1] = c.variant
             /\ first \div 32 =
                  (CASE c.variant = "Status" -> c.epoch_now_mod8
                     [] c.variant \in {"EpochRequest", "QuickEpochResponse", "EpochResponse",
                                       "BucketContentRequest", "BucketContentResponse"} ->
                          c.epoch_mod8
                     [] OTHER -> 0)
             /\ (c.variant = "EpochResponse" /\ c.epoch_mod8 = 3) =>
                    (first = 106 /\ Len(air.info) - 4 = 65)
    /\ (/\ rx # NoRx
        /\ Len(air.info) > 4
        /\ air.info[1] % 32 \in 17..31
        /\ ChecksumValid(air)) =>
          (~rx.res.ok /\ rx.res.err = "InvalidCommand")

\* An EpochResponse of epoch 3 has been encoded and decoded.
CommandByteLayoutWitness ==
    /\ tx # NoTransmission
    /\ ~flipped
    /\ tx.command.variant = "EpochResponse"
    /\ air.info[1] = 106
    /\ rx # NoRx
    /\ rx.res.ok

\* C22: after the N encoded stations a Range command carries exactly
\* ceil(N/8) bitmap bytes; bit 7 - (i mod 8) of byte i div 8 is set exactly
\* when stations[i].is_mutual, and the bits beyond N are 0.
RangeBitmap ==
    (tx # NoTransmission /\ ~flipped /\ tx.command.variant = "Range") =>
        LET stations == tx.command.stations
            N == Len(stations)
            command_bytes == SubSeq(air.info, 1, Len(air.info) - 4)
            encoded == Flatten([i \in 1..N |-> StationEncoded(stations[i].station, tx.network)])
            bitmap == Drop(command_bytes, 3 + Len(encoded))
            Bit(i) == (bitmap[(i \div 8) + 1] \div (2 ^ (7 - (i % 8)))) % 2
        IN /\ SubSeq(command_bytes, 4, 3 + Len(encoded)) = encoded
           /\ Len(bitmap) = (N + 7) \div 8
           /\ \A i \in 0..(8 * Len(bitmap) - 1) :
                  Bit(i) = IF i < N /\ stations[i + 1].is_mutual THEN 1 ELSE 0

\* C24: a Status command carries at most 4 StationSparse entries on the wire:
\* encode_command emits the command byte, the six CRCs and then at most 4
\* entries, and every Status returned by decode_transmission has at most 4
\* entries in recently_added.
StatusAtMostFour ==
    /\ (tx # NoTransmission /\ ~flipped /\ tx.command.variant = "Status") =>
           LET c == tx.command
               command_bytes == SubSeq(air.info, 1, Len(air.info) - 4)
               crcs == <<c.epoch_4_ago_crc, c.epoch_3_ago_crc, c.epoch_2_ago_crc,
                         c.epoch_1_ago_crc, c.epoch_now_crc, c.epoch_next_crc>>
           IN /\ SubSeq(command_bytes, 2, 25) = Flatten([i \in 1..6 |-> U32Bytes(crcs[i])])
              /\ \E k \in 0..4 :
                     /\ k <= Len(c.recently_added)
                     /\ Drop(command_bytes, 25) =
                            Flatten([i \in 1..k |->
                                encode_station_sparse(c.recently_added[i], tx.network)])
    /\ (rx # NoRx /\ rx.res.ok /\ rx.res.val.command.variant = "Status") =>
           Len(rx.res.val.command.recently_added) <= 4

\* C26: for every valid Transmission, sender SSID 0 included, the bytes
\* encode_transmission feeds to CRC-32 are the bytes decode_transmission feeds
\* to CRC-32 for the resulting frame: the sender as CALLSIGN-SSID, CHT and the
\* network id, '-' and the version digit, then the command bytes.
CrcInputsAgree ==
    (tx # NoTransmission /\ ~flipped) =>
        LET command_bytes == SubSeq(air.info, 1, Len(air.info) - 4)
        IN /\ PacketHashInput(tx) = ReceivedHashInput(air, command_bytes)
           /\ PacketHashInput(tx) =
                  tx.sender.callsign \o <<45, 48 + tx.sender.ssid>>
                    \o CHT \o tx.network
                    \o <<45, IF tx.version = "Test" THEN 48 ELSE 49>>
                    \o command_bytes

\* C27: for a CHT-addressed UI frame with a recognized version and a valid
\* sender, decode_transmission returns Err(Truncated) when the info field is
\* shorter than 4 bytes, Err(CrcMismatch) when it has 4 bytes or more and its
\* last 4 bytes are not the recomputed CRC-32, whatever the command bytes, and
\* Err(InvalidCommand) when it is exactly 4 checksum-valid bytes.
ChecksumBeforeCommand ==
    (/\ rx # NoRx
     /\ IsChatterooDestination(air.destination.callsign)
     /\ air.content = "UnnumberedInformation"
     /\ air.destination.ssid \in {0, 1}
     /\ StationNew(air.source.callsign, air.source.ssid).ok) =>
        LET n == Len(air.info)
            matches == SubSeq(air.info, n - 3, n)
                         = U32Bytes(ReceivedHash(air, SubSeq(air.info, 1, n - 4)))
        IN IF n < 4 THEN ~rx.res.ok /\ rx.res.err = "Truncated"
           ELSE IF ~matches THEN ~rx.res.ok /\ rx.res.err = "CrcMismatch"
           ELSE n = 4 => ~rx.res.ok /\ rx.res.err = "InvalidCommand"

ElidedStationInNetwork ==
    (/\ rx # NoRx
     /\ rx.res.ok
     /\ air.info[1] % 32 \in {3, 4, 5, 6, 7, 8, 11, 13, 14, 15, 16}) =>
        LET body == SubSeq(air.info, 2, Len(air.info) - 4)
            k == FirstNonCallsignSymbol(body)
            c == rx.res.val.command
            station == IF "target" \in DOMAIN c THEN c.target ELSE c.station
        IN (k < SymbolCount(body) /\ SymbolAt(body, k) \in 46..55) =>
               starts_with(station.callsign, rx.res.val.network)

-----------------------------------------------------------------------------
(* u32 arithmetic on pairs <<high 16 bits, low 16 bits>>.  The second operand *)
(* of + and - is a small literal of the source.  Each result carries whether  *)
(* the exact result left 0..2^32-1, and the wrapped value.                     *)

U32(n) == <<n \div 65536, n % 65536>>

U32Add(a, b) ==
    LET lo == a[2] + b
        hi == a[1] + lo \div 65536
    IN [val |-> <<hi % 65536, lo % 65536>>, overflow |-> hi >= 65536]

U32Sub(a, b) ==
    LET lo == a[2] - b
        hi == a[1] + lo \div 65536
    IN [val |-> <<hi % 65536, lo % 65536>>, overflow |-> hi < 0]

U32Le(a, b) == a[1] < b[1] \/ (a[1] = b[1] /\ a[2] <= b[2])

\* i64 as u32, for |w| < 2^31
I64AsU32(w) == IF w >= 0 THEN U32(w) ELSE U32Sub(<<0, 0>>, -w).val

-----------------------------------------------------------------------------
(* protocol/epoch.rs.  An instant is its number of seconds since START, an   *)
(* Epoch its field abs.                                                       *)

\* Duration::whole_weeks: whole_seconds / 604800, rounded towards zero.
SecondsPerWeek == 604800

whole_weeks(diff) ==
    IF diff >= 0 THEN diff \div SecondsPerWeek ELSE -((-diff) \div SecondsPerWeek)

\* Mutant: a week that has begun counts as a whole one.
EpochAtBegunWeeks(dt) == I64AsU32(whole_weeks(dt + SecondsPerWeek - 1))

\* Epoch::at(dt)
EpochAt(dt) == I64AsU32(whole_weeks(dt))

index_abs(abs) == abs

index_mod8(abs) == abs[2] % 8

\* Lines 59, 63 and 67: `c >= (now_abs - 5) && c <= (now_abs + 1)`, the second
\* operand of && evaluated only when the first holds.
InWindow(c, now_abs) ==
    LET low == U32Sub(now_abs, 5)
        high == U32Add(now_abs, 1)
        first == U32Le(low.val, c)
    IN [holds |-> first /\ U32Le(c, high.val),
        overflow |-> low.overflow \/ (first /\ high.overflow)]

\* Epoch::from_mod8(mod8) when Epoch::now().abs is now_abs.  With overflow
\* checks an overflowing + or - panics; without them it wraps.
FromMod8(mod8, now_abs, checks) ==
    LET curr == U32Add(<<now_abs[1], now_abs[2] - (now_abs[2] % 8)>>, mod8)
        upper == U32Add(curr.val, 8)
        lower == U32Sub(curr.val, 8)
        c == InWindow(curr.val, now_abs)
        l == InWindow(lower.val, now_abs)
        u == InWindow(upper.val, now_abs)
    IN IF checks /\ (curr.overflow \/ upper.overflow \/ lower.overflow \/ c.overflow)
       THEN Panicked
       ELSE IF c.holds THEN Ok(curr.val)
       ELSE IF checks /\ l.overflow THEN Panicked
       ELSE IF l.holds THEN Ok(lower.val)
       ELSE IF checks /\ u.overflow THEN Panicked
       ELSE IF u.holds THEN Ok(upper.val)
       ELSE Err("UnreadableEpoch")

\* Whether a + or - that from_mod8 evaluates leaves 0..2^32-1: what the build
\* with overflow checks turns into a panic.
FromMod8Wraps(mod8, now_abs) == FromMod8(mod8, now_abs, TRUE) = Panicked

-----------------------------------------------------------------------------
(* Epoch operations as steps of a sender and a receiver under one wall clock *)

\* How often the clock is advanced.
MaxTicks == 2

\* The first and the last second of weeks 0, 1, 4, 6, 7, 8, 15 and 16, the
\* instant of tests::epoch_edges in week 52, an instant in week 357, and two
\* instants before START.
ClockInputs ==
    {-SecondsPerWeek, -1, 0, SecondsPerWeek - 1, SecondsPerWeek, 2 * SecondsPerWeek - 1,
     5 * SecondsPerWeek - 1, 7 * SecondsPerWeek - 1, 8 * SecondsPerWeek - 1,
     16 * SecondsPerWeek - 1, 31665600, 357 * SecondsPerWeek + 3600}

\* How far the receiver's clock is from the sender's: an hour or a week either
\* way, and two weeks, more than from_mod8 provides for.
SkewInputs ==
    {-2 * SecondsPerWeek, -SecondsPerWeek, -3600, 0, 3600, SecondsPerWeek, 2 * SecondsPerWeek}

\* How many weeks before the sender's clock reading the epoch it abbreviates
\* was current; index_mod8 allows 0 to 4.
BackInputs == 0..5

InitEpoch ==
    /\ ChannelIdle
    /\ call = NoCall
    /\ made = <<>>
    /\ prefix = <<>>
    /\ wire = <<>>
    /\ rest = <<>>
    /\ parsed = <<>>
    /\ overflowChecks \in BOOLEAN
    /\ clock \in ClockInputs
    /\ ticks = 0
    /\ sent = NoSent
    /\ restored = NoRestored
    /\ sweep = NoSweep

Tick ==
    /\ ticks < MaxTicks
    /\ \E d \in {1, SecondsPerWeek} : clock' = clock + d
    /\ ticks' = ticks + 1
    /\ UNCHANGED <<stationVars, channelVars, overflowChecks, sent, restored, sweep>>

\* The sender reads Epoch::now() and abbreviates, with index_mod8, the epoch
\* that Epoch::now() gave it `back` weeks earlier (back = 0: the one just read,
\* as in tests::epoch_mod8_now_restore).
Send ==
    /\ sent = NoSent
    /\ \E back \in BackInputs :
           LET e == EpochAt(clock - back * SecondsPerWeek)
           IN sent' = [sent |-> TRUE, dt |-> clock, S |-> index_abs(EpochAt(clock)),
                       back |-> back, e |-> index_abs(e), mod8 |-> index_mod8(e)]
    /\ UNCHANGED <<stationVars, channelVars, overflowChecks, clock, ticks, restored, sweep>>

\* The receiver calls Epoch::from_mod8 on what was sent; its clock is skew
\* seconds from the sender's (skew = 0: also the sender itself).
Receive ==
    /\ sent # NoSent
    /\ restored = NoRestored
    /\ \E skew \in SkewInputs :
           LET now_abs == EpochAt(clock + skew)
           IN restored' = [called |-> TRUE, skew |-> skew, dt |-> clock + skew,
                           R |-> index_abs(now_abs),
                           res |-> FromMod8(sent.mod8, now_abs, overflowChecks)]
    /\ UNCHANGED <<stationVars, channelVars, overflowChecks, clock, ticks, sent, sweep>>

\* Epoch::from_mod8 of every mod8 in 0..7 (tests::epoch_mod8_all_values), the
\* clock reading the same for all eight.
Sweep ==
    /\ sweep = NoSweep
    /\ sweep' = [swept |-> TRUE, dt |-> clock, now |-> index_abs(EpochAt(clock)),
                 res |-> [mod8 \in 0..7 |-> FromMod8(mod8, EpochAt(clock), overflowChecks)]]
    /\ UNCHANGED <<stationVars, channelVars, overflowChecks, clock, ticks, sent, restored>>

NextEpoch == Tick \/ Send \/ Receive \/ Sweep

SpecEpoch == InitEpoch /\ [][NextEpoch]_vars

-----------------------------------------------------------------------------
(* Properties of the epoch operations, under SpecEpoch *)

\* The number a u32 below 2^31 stands for.
EpochIndex(abs) == abs[1] * 65536 + abs[2]

IsWeekOf(abs, dt) ==
    /\ abs[1] < 32768
    /\ EpochIndex(abs) * SecondsPerWeek <= dt
    /\ dt < (EpochIndex(abs) + 1) * SecondsPerWeek

\* C17: for an instant dt at or after START, Epoch::at(dt) is the N with
\* START + 7N days <= dt < START + 7(N+1) days; the instant of
\* tests::epoch_edges, 2021-01-01 12:00, is in epoch 52.
EpochAtIsFloor ==
    /\ (sent # NoSent /\ sent.dt >= 0) => IsWeekOf(sent.S, sent.dt)
    /\ (restored # NoRestored /\ restored.dt >= 0) => IsWeekOf(restored.R, restored.dt)
    /\ (sweep # NoSweep /\ sweep.dt >= 0) => IsWeekOf(sweep.now, sweep.dt)
    /\ (sweep # NoSweep /\ sweep.dt = 31665600) => sweep.now = <<0, 52>>

\* The clock was read in the last second of epoch 1 and again, one tick
\* later, in the first second of epoch 2.
EpochAtIsFloorWitness ==
    /\ sent # NoSent
    /\ sent.dt = 2 * SecondsPerWeek - 1
    /\ sent.S = <<0, 1>>
    /\ sweep # NoSweep
    /\ sweep.dt = 2 * SecondsPerWeek
    /\ sweep.now = <<0, 2>>

\* C18: at a current epoch now at or after START, Epoch::from_mod8 of the
\* eight mod8 values 0..7 gives five epochs before now, one equal to now, one
\* equal to now + 1 and one Err(UnreadableEpoch), for mod8 = (now + 2) % 8;
\* every Ok epoch e has e % 8 = mod8 and now - 5 <= e <= now + 1.
SweepCounts ==
    (sweep # NoSweep /\ sweep.dt >= 0) =>
        LET now == EpochIndex(sweep.now)
            OkEpoch(m) == sweep.res[m].ok /\ sweep.res[m].val[1] < 32768
            past == {m \in 0..7 : OkEpoch(m) /\ EpochIndex(sweep.res[m].val) < now}
            curr == {m \in 0..7 : OkEpoch(m) /\ EpochIndex(sweep.res[m].val) = now}
            future == {m \in 0..7 : OkEpoch(m) /\ EpochIndex(sweep.res[m].val) = now + 1}
            failed == {m \in 0..7 : ~sweep.res[m].ok /\ sweep.res[m].err = "UnreadableEpoch"}
        IN /\ Cardinality(past) = 5
           /\ Cardinality(curr) = 1
           /\ Cardinality(future) = 1
           /\ failed = {(now + 2) % 8}
           /\ \A m \in past \cup curr \cup future :
                  /\ EpochIndex(sweep.res[m].val) % 8 = m
                  /\ EpochIndex(sweep.res[m].val) >= now - 5

\* C19: when the sender, at its epoch S, abbreviates an epoch e with
\* S - 4 <= e <= S and the receiver's epoch R is S - 1, S or S + 1, the
\* receiver's Epoch::from_mod8 returns Ok(e).
SkewedRoundTrip ==
    (/\ restored # NoRestored
     /\ sent.back <= 4
     /\ sent.dt - sent.back * SecondsPerWeek >= 0
     /\ restored.dt >= 0
     /\ EpochIndex(restored.R) - EpochIndex(sent.S) \in {-1, 0, 1})
        => restored.res = Ok(sent.e)

\* C20: Epoch::from_mod8(Epoch::now().index_mod8()) is Ok of the epoch that
\* Epoch::now() returned, whether the clock read inside from_mod8 falls in that
\* epoch or in the next one.
NowRoundTrip ==
    (/\ restored # NoRestored
     /\ restored.skew = 0
     /\ sent.back = 0
     /\ sent.dt >= 0
     /\ EpochIndex(restored.R) - EpochIndex(sent.S) \in {0, 1})
        => restored.res = Ok(sent.S)

\* C28: at every current epoch now at or after START, the first eight
\* included, and for every mod8 in 0..7, Epoch::from_mod8 evaluates
\* candidate - 8, now - 5, candidate + 8 and now + 1 without leaving
\* 0..2^32-1, and returns the epoch e with e % 8 = mod8 and
\* now - 5 <= e <= now + 1 when there is one, Err(UnreadableEpoch) otherwise.
FromMod8NoWrap ==
    (sweep # NoSweep /\ sweep.dt >= 0) =>
        LET now == EpochIndex(sweep.now)
        IN \A m \in 0..7 :
               LET r == sweep.res[m]
                   candidates == {e \in 0..(now + 1) : e >= now - 5 /\ e % 8 = m}
               IN /\ ~FromMod8Wraps(m, sweep.now)
                  /\ IF candidates = {}
                     THEN ~r.ok /\ r.err = "UnreadableEpoch"
                     ELSE r.ok /\ \E e \in candidates : r.val = U32(e)

-----------------------------------------------------------------------------
(* The field codecs of channel/ax25.rs called on their own: each encoder's  *)
(* output, whole and followed by more bytes or cut short, is handed to its  *)
(* decoder.                                                                  *)

\* Indices around the byte boundary and the 13-bit limit, and two above it
\* that have the marker bit of the short form set.
TopInputs == {0, 1, 50, 255, 256, 300, 8191, 8192, 32768, 40000}
BottomInputs == {0, 1, 200, 256, 8191, 65535}

\* Bytes that follow an encoded range in a buffer.
FollowingInputs == {<<>>, <<0>>, <<128>>, <<255, 1>>}

\* encode_contiguous_range(top, bottom, &mut out) and take_contiguous_range on
\* the first cut bytes of out, or on out and what follows it.
ContiguousRangeCall ==
    \E top \in TopInputs, bottom \in BottomInputs, following \in FollowingInputs,
       cut \in 0..4 :
        LET out == encode_contiguous_range(top, bottom)
            whole == cut >= Len(out)
            buf == IF whole THEN out \o following ELSE SubSeq(out, 1, cut)
        IN /\ call = NoCall
           /\ whole \/ following = <<>>
           /\ call' = [op |-> "contiguous_range", top |-> top, bottom |-> bottom,
                       out |-> out, whole |-> whole, following |-> following,
                       buf |-> buf, res |-> take_contiguous_range(buf)]
           /\ UNCHANGED <<made, prefix, wire, rest, parsed, channelVars, epochVars>>

\* The documented ranges of FrameWithMetadata's fields, and the first value
\* above each.
FrameInputs ==
    [epoch_mod8 : {0, 1, 7, 8}, index : {0, 1, 255, 256, 4096, 8191, 8192},
     start_of_message : BOOLEAN, end_of_message : BOOLEAN,
     application : {0, 1, 15, 16}, data : {<<>>, <<0>>, <<1, 255>>}]

\* encode_frame_with_metadata(&f, &mut out) and decode_frame_with_metadata on
\* out or on fewer than 3 bytes of it.
FrameWithMetadataCall ==
    \E f \in FrameInputs, cut \in 0..3 :
        LET out == encode_frame_with_metadata(f)
            whole == cut = 3
            buf == IF whole THEN out ELSE SubSeq(out, 1, cut)
        IN /\ call = NoCall
           /\ call' = [op |-> "frame_with_metadata", f |-> f, out |-> out,
                       whole |-> whole, buf |-> buf,
                       res |-> decode_frame_with_metadata(buf)]
           /\ UNCHANGED <<made, prefix, wire, rest, parsed, channelVars, epochVars>>

NextCodec == ContiguousRangeCall \/ FrameWithMetadataCall

SpecCodec == InitStation /\ [][NextCodec]_vars

-----------------------------------------------------------------------------
(* Properties of the field codecs, under SpecCodec *)

\* C23: for top <= 8191, encode_contiguous_range writes top + 0x8000 in 2
\* bytes, big-endian, when bottom = 0 and otherwise top and bottom in 4 bytes
\* with the first bit 0; take_contiguous_range of these bytes and any that
\* follow returns top, bottom and the following bytes, and Err(Truncated) when
\* given fewer than the 2 or 4 bytes.
ContiguousRangeCodec ==
    (call.op = "contiguous_range" /\ call.top <= 8191) =>
        /\ call.out = IF call.bottom = 0
                      THEN <<(call.top + 32768) \div 256, call.top % 256>>
                      ELSE <<call.top \div 256, call.top % 256,
                             call.bottom \div 256, call.bottom % 256>>
        /\ call.bottom # 0 => call.out[1] < 128
        /\ IF call.whole
           THEN /\ call.res.ok
                /\ call.res.val = [top |-> call.top, bottom |-> call.bottom,
                                   rest |-> call.following]
           ELSE ~call.res.ok /\ call.res.err = "Truncated"

\* The range 8191..0 followed by a byte with the marker bit set.
ContiguousRangeCodecWitness ==
    /\ call.op = "contiguous_range"
    /\ call.top = 8191
    /\ call.bottom = 0
    /\ call.out = <<159, 255>>
    /\ call.following = <<128>>
    /\ call.res.ok

\* C25: for epoch_mod8 < 8, index < 8192 and application < 16,
\* encode_frame_with_metadata writes epoch_mod8 * 8192 + index in 2 bytes,
\* big-endian, then a byte with start_of_message in bit 7, end_of_message in
\* bit 6, bits 5 and 4 clear and application in the low 4 bits, then the data;
\* decode_frame_with_metadata of these bytes returns the same value, and
\* Err(Truncated) for fewer than 3 bytes.
FrameWithMetadataCodec ==
    (/\ call.op = "frame_with_metadata"
     /\ call.f.epoch_mod8 < 8
     /\ call.f.index < 8192
     /\ call.f.application < 16) =>
        LET f == call.f
            word == f.epoch_mod8 * 8192 + f.index
            flags == (IF f.start_of_message THEN 128 ELSE 0)
                       + (IF f.end_of_message THEN 64 ELSE 0) + f.application
        IN /\ call.out = <<word \div 256, word % 256, flags>> \o f.data
           /\ (call.out[3] \div 16) % 4 = 0
           /\ IF Len(call.buf) < 3
              THEN ~call.res.ok /\ call.res.err = "Truncated"
              ELSE call.res.ok /\ call.res.val = f

\* The frame with every field at its largest value came back from its bytes.
FrameWithMetadataCodecWitness ==
    /\ call.op = "frame_with_metadata"
    /\ call.f.epoch_mod8 = 7
    /\ call.f.index = 8191
    /\ call.f.application = 15
    /\ call.f.start_of_message
    /\ call.f.data = <<1, 255>>
    /\ call.out = <<255, 255, 207, 1, 255>>
    /\ call.res.ok

=============================================================================
